---- MODULE Spec2Model ----
(***************************************************************************)
(* Model of the student testing system of OOP2N.py: the entity classes     *)
(* (Student, Question, Test, TestAttempt), the TestingSystem registry with *)
(* its JSON persistence, and the handlers of TestingSystemApp that change  *)
(* registry state.                                                         *)
(*                                                                         *)
(* Opaque text attributes that no decision reads (full_name, group, email, *)
(* title, subject, time_limit, question text, options) are left out of the *)
(* records.  Object references (attempt.student, attempt.test, the entries *)
(* of student.test_attempts) are held as the ids of the objects.           *)
(*                                                                         *)
(* The module also models the cafe of OOP1L.py, a separate program: Dish,  *)
(* OrderLine, Client, Order and the Cafe registry with cafe_data.json.     *)
(***************************************************************************)
EXTENDS Integers, Sequences, FiniteSets, TLC

VARIABLES students, tests, attempts,
          next_student_id, next_test_id, next_attempt_id, next_question_id,
          disk, clock, steps, ret,
          cafe, cafe_data

vars == <<students, tests, attempts,
          next_student_id, next_test_id, next_attempt_id, next_question_id,
          disk, clock, steps, ret,
          cafe, cafe_data>>

(***************************************************************************)
(* Bounds of the model.                                                    *)
(***************************************************************************)
MaxSteps == 3

(***************************************************************************)
(* Program constants.                                                      *)
(***************************************************************************)
DefaultPassingScore == 60
MaxAttemptsPerTest == 3

None == -1
NoFile == [exists |-> FALSE]

TestStatus == {"NOT_STARTED", "IN_PROGRESS", "COMPLETED", "EVALUATED"}
OrderState == {"WAITING", "ACCEPTED", "COOKING", "DONE", "FINISHED", "CANCELED"}
PayState == {"NOT_PAID", "PAID", "RETURNED"}
QuestionType == {"SINGLE_CHOICE", "MULTIPLE_CHOICE", "TEXT_ANSWER"}

(***************************************************************************)
(* Generic helpers standing for Python built-ins.                          *)
(***************************************************************************)
Range(seq) == {seq[i] : i \in 1..Len(seq)}

RECURSIVE SumSeq(_)
SumSeq(seq) == IF seq = <<>> THEN 0 ELSE Head(seq) + SumSeq(Tail(seq))

RECURSIVE SumFun(_, _)
SumFun(f, keys) ==
    IF keys = {} THEN 0
    ELSE LET k == CHOOSE x \in keys : TRUE IN f[k] + SumFun(f, keys \ {k})

\* sum(d.values()) of a dict
SumValues(d) == SumFun(d, DOMAIN d)

\* [x for x in seq if P(x)]
Filter(seq, P(_)) == SelectSeq(seq, P)

\* [f(x) for x in seq]
Map(seq, F(_)) == [i \in 1..Len(seq) |-> F(seq[i])]

\* the empty dict
EmptyDict == [k \in {} |-> 0]

\* d[k] = v on a dict
DictSet(d, k, v) == [x \in (DOMAIN d) \cup {k} |-> IF x = k THEN v ELSE d[x]]

\* d.update(other)
DictUpdate(d, other) ==
    [x \in (DOMAIN d) \cup (DOMAIN other) |-> IF x \in DOMAIN other THEN other[x] ELSE d[x]]

(***************************************************************************)
(* Dict keys.  A key made by the program is an int; a key read back from   *)
(* JSON is the str of that int.  1 and "1" are different keys of a dict.   *)
(***************************************************************************)
IntKey(n) == <<"int", n>>
StrKey(n) == <<"str", n>>

(***************************************************************************)
(* A number n / d as a fraction in lowest terms; d > 0.                    *)
(***************************************************************************)
RECURSIVE Gcd(_, _)
Gcd(a, b) == IF b = 0 THEN a ELSE Gcd(b, a % b)

Abs(n) == IF n < 0 THEN -n ELSE n

Frac(n, d) ==
    LET g == Gcd(Abs(n), d) IN [num |-> n \div g, den |-> d \div g]

(***************************************************************************)
(* Student                                                                 *)
(***************************************************************************)
Student(student_id) == [student_id |-> student_id, test_attempts |-> <<>>]

\* an attempt list that takes the new attempt at its head
Student_add_attempt_First(student, attempt) ==
    [student EXCEPT !.test_attempts = <<attempt.attempt_id>> \o @]

Student_add_attempt(student, attempt) ==
    [student EXCEPT !.test_attempts = Append(@, attempt.attempt_id)]

Student_to_dict(student) == [student_id |-> student.student_id]

Student_from_dict(data) == Student(data.student_id)

(***************************************************************************)
(* Question                                                                *)
(***************************************************************************)
Question(question_id, question_type, correct_answers, max_points) ==
    [question_id |-> question_id, question_type |-> question_type,
     correct_answers |-> correct_answers, max_points |-> max_points,
     is_active |-> TRUE]

Question_toggle_active(question) == [question EXCEPT !.is_active = ~@]

\* a check that gives credit for a subset of the correct answers
check_answer_Subset(question, user_answers) ==
    IF question.question_type = "SINGLE_CHOICE"
    THEN IF user_answers # <<>>
         THEN user_answers[1] \in Range(question.correct_answers)
         ELSE FALSE
    ELSE IF question.question_type = "MULTIPLE_CHOICE"
    THEN Range(user_answers) \subseteq Range(question.correct_answers)
    ELSE TRUE

check_answer(question, user_answers) ==
    IF question.question_type = "SINGLE_CHOICE"
    THEN IF user_answers # <<>>
         THEN user_answers[1] \in Range(question.correct_answers)
         ELSE FALSE
    ELSE IF question.question_type = "MULTIPLE_CHOICE"
    THEN Range(user_answers) = Range(question.correct_answers)
    ELSE TRUE

Question_to_dict(question) == question

Question_from_dict(data) ==
    [Question(data.question_id, data.question_type, data.correct_answers, data.max_points)
        EXCEPT !.is_active = data.is_active]

(***************************************************************************)
(* Test                                                                    *)
(***************************************************************************)
Test(test_id) ==
    [test_id |-> test_id, questions |-> <<>>, is_active |-> TRUE,
     passing_score |-> DefaultPassingScore]

add_question(test, question) == [test EXCEPT !.questions = Append(@, question)]

remove_question(test, question_id) ==
    [test EXCEPT !.questions = Filter(@, LAMBDA q : q.question_id # question_id)]

get_active_questions(test) == Filter(test.questions, LAMBDA q : q.is_active)

\* a maximum that counts the questions switched off as well
get_max_score_AllQuestions(test) ==
    SumSeq(Map(test.questions, LAMBDA q : q.max_points))

get_max_score(test) ==
    SumSeq(Map(get_active_questions(test), LAMBDA q : q.max_points))

\* a switch of the test that takes its questions along
Test_toggle_active_Cascade(test) ==
    [test EXCEPT !.is_active = ~@,
                 !.questions = Map(@, Question_toggle_active)]

Test_toggle_active(test) == [test EXCEPT !.is_active = ~@]

Test_to_dict(test) ==
    [test_id |-> test.test_id,
     questions |-> Map(test.questions, Question_to_dict),
     is_active |-> test.is_active,
     passing_score |-> test.passing_score]

Test_from_dict(data) ==
    [Test(data.test_id) EXCEPT
        !.questions = Map(data.questions, Question_from_dict),
        !.is_active = data.is_active,
        !.passing_score = data.passing_score]

(***************************************************************************)
(* Timestamps.  A datetime is a clock reading; its ISO text is a different *)
(* value that fromisoformat parses back.  JSON null is the empty tuple.    *)
(***************************************************************************)
isoformat(t) == <<"iso", t>>

fromisoformat(text) == text[2]

JsonNull == <<>>

(***************************************************************************)
(* json.dump followed by json.load on a dict: every key becomes a str.     *)
(* Two keys with the same text collapse into one entry holding the value   *)
(* written last.  A str key enters a dict only in load_data, which assigns *)
(* the whole dict, so every int key was inserted after every str key and   *)
(* its value is the one written last.                                      *)
(***************************************************************************)
JsonObject(d) ==
    [k \in {StrKey(x[2]) : x \in DOMAIN d} |->
        IF IntKey(k[2]) \in DOMAIN d THEN d[IntKey(k[2])] ELSE d[k]]

(***************************************************************************)
(* TestAttempt                                                             *)
(***************************************************************************)
TestAttempt(attempt_id, student, test, now) ==
    [attempt_id |-> attempt_id, student |-> student.student_id, test |-> test.test_id,
     start_time |-> now, end_time |-> None, status |-> "NOT_STARTED",
     answers |-> EmptyDict, scores |-> EmptyDict,
     final_score |-> 0, percentage |-> Frac(0, 1), is_passed |-> FALSE]

start_attempt(attempt, now) ==
    [attempt EXCEPT !.status = "IN_PROGRESS", !.start_time = now]

\* next((q for q in test.questions if q.question_id == question_id), None)
FindQuestion(test, question_id) ==
    Filter(test.questions, LAMBDA q : q.question_id = question_id)

\* an automatic check that takes in the text questions too
AutoChecked_Any(question) == question.question_type \in QuestionType

\* question.question_type in [SINGLE_CHOICE, MULTIPLE_CHOICE]
AutoChecked(question) == question.question_type \in {"SINGLE_CHOICE", "MULTIPLE_CHOICE"}

\* test is the object attempt.test refers to; question_id is an int
\* a submission that adds the points to the ones recorded for the question
submit_answer_Accumulate(attempt, test, question_id, answers) ==
    LET recorded == [attempt EXCEPT !.answers = DictSet(@, IntKey(question_id), answers)]
        found == FindQuestion(test, question_id)
        held == IF IntKey(question_id) \in DOMAIN attempt.scores
                THEN attempt.scores[IntKey(question_id)] ELSE 0
    IN  IF found # <<>> /\ AutoChecked(found[1])
        THEN IF check_answer(found[1], answers)
             THEN [recorded EXCEPT !.scores = DictSet(@, IntKey(question_id),
                                                      held + found[1].max_points)]
             ELSE [recorded EXCEPT !.scores = DictSet(@, IntKey(question_id), held)]
        ELSE recorded

submit_answer(attempt, test, question_id, answers) ==
    LET recorded == [attempt EXCEPT !.answers = DictSet(@, IntKey(question_id), answers)]
        found == FindQuestion(test, question_id)
    IN  IF found # <<>> /\ AutoChecked(found[1])
        THEN IF check_answer(found[1], answers)
             THEN [recorded EXCEPT !.scores = DictSet(@, IntKey(question_id), found[1].max_points)]
             ELSE [recorded EXCEPT !.scores = DictSet(@, IntKey(question_id), 0)]
        ELSE recorded

\* total_score / max_score * 100; the quotient is kept exact (for the scores
\* and thresholds of the program the float result compares the same way)
Percentage(total_score, max_score) ==
    IF max_score > 0 THEN Frac(total_score * 100, max_score) ELSE Frac(0, 1)

\* a threshold that must be exceeded
AtLeast_Strict(percentage, passing_score) == percentage.num > passing_score * percentage.den

\* percentage >= passing_score
AtLeast(percentage, passing_score) == percentage.num >= passing_score * percentage.den

calculate_score(attempt, test) ==
    LET total_score == SumValues(attempt.scores)
        max_score == get_max_score(test)
        percentage == Percentage(total_score, max_score)
    IN  [attempt EXCEPT !.final_score = total_score,
                        !.percentage = percentage,
                        !.is_passed = AtLeast(percentage, test.passing_score)]

finish_attempt(attempt, test, now) ==
    calculate_score([attempt EXCEPT !.status = "COMPLETED", !.end_time = now], test)

\* manual_scores is a dict, or None given as the empty dict (both are falsy)
evaluate_attempt(attempt, test, manual_scores) ==
    LET marked == [attempt EXCEPT !.status = "EVALUATED"]
        merged == IF DOMAIN manual_scores # {}
                  THEN [marked EXCEPT !.scores = DictUpdate(@, manual_scores)]
                  ELSE marked
    IN  calculate_score(merged, test)

get_duration(attempt) ==
    IF attempt.end_time # None /\ attempt.start_time # None
    THEN attempt.end_time - attempt.start_time
    ELSE 0

TestAttempt_to_dict(attempt) ==
    [attempt_id |-> attempt.attempt_id,
     student_id |-> attempt.student,
     test_id |-> attempt.test,
     start_time |-> isoformat(attempt.start_time),
     end_time |-> IF attempt.end_time # None THEN isoformat(attempt.end_time) ELSE JsonNull,
     status |-> attempt.status,
     answers |-> attempt.answers,
     scores |-> attempt.scores,
     final_score |-> attempt.final_score,
     percentage |-> attempt.percentage,
     is_passed |-> attempt.is_passed]

(***************************************************************************)
(* TestingSystem.  self is the record of the object's fields; the file     *)
(* testing_system_data.json travels with it as the field disk, so that an  *)
(* operation and the save_data call it ends with are one step.             *)
(* An operation yields Result(self, ok, id, warn): the object after the    *)
(* call, whether a value (not None / not False) was returned, the id of    *)
(* the entity returned (0 when none) and whether a warning box was shown.  *)
(***************************************************************************)
Result(self, ok, id, warn) == [self |-> self, ok |-> ok, id |-> id, warn |-> warn]

\* position of the first element of seq satisfying P, 0 when there is none
FirstIndex(seq, P(_)) ==
    IF \E i \in 1..Len(seq) : P(seq[i])
    THEN CHOOSE i \in 1..Len(seq) : P(seq[i]) /\ \A j \in 1..(i - 1) : ~P(seq[j])
    ELSE 0

\* seq without its element at position i (list.remove of the element found there)
RemoveAt(seq, i) == [j \in 1..(Len(seq) - 1) |-> IF j < i THEN seq[j] ELSE seq[j + 1]]

\* __init__ before load_data; file is what the file system holds
TestingSystem_init(file) ==
    [students |-> <<>>, tests |-> <<>>, attempts |-> <<>>,
     next_student_id |-> 1, next_test_id |-> 1,
     next_attempt_id |-> 1, next_question_id |-> 1,
     disk |-> file]

\* the data dict of save_data as json.load reads it back from the file
json_dump(self) ==
    [students |-> Map(self.students, Student_to_dict),
     tests |-> Map(self.tests, Test_to_dict),
     attempts |-> Map(self.attempts,
                      LAMBDA a : [TestAttempt_to_dict(a) EXCEPT
                                     !.answers = JsonObject(@),
                                     !.scores = JsonObject(@)]),
     counters |-> [student |-> self.next_student_id,
                   test |-> self.next_test_id,
                   attempt |-> self.next_attempt_id,
                   question |-> self.next_question_id]]

save_data(self) == [self EXCEPT !.disk = [exists |-> TRUE, data |-> json_dump(self)]]

\* a search that falls back on the first student
find_student_by_id_OrFirst(self, student_id) ==
    IF \E i \in 1..Len(self.students) : self.students[i].student_id = student_id
    THEN CHOOSE i \in 1..Len(self.students) :
             /\ self.students[i].student_id = student_id
             /\ \A j \in 1..(i - 1) : self.students[j].student_id # student_id
    ELSE IF self.students = <<>> THEN 0 ELSE 1

\* index into self.students, 0 for None
find_student_by_id(self, student_id) ==
    FirstIndex(self.students, LAMBDA s : s.student_id = student_id)

\* a lookup that falls back to the first test
find_test_by_id_OrFirst(self, test_id) ==
    LET found == FirstIndex(self.tests, LAMBDA t : t.test_id = test_id)
    IN  IF found # 0 THEN found ELSE IF self.tests = <<>> THEN 0 ELSE 1

\* index into self.tests, 0 for None
find_test_by_id(self, test_id) ==
    FirstIndex(self.tests, LAMBDA t : t.test_id = test_id)

add_student(self) ==
    LET student == Student(self.next_student_id)
    IN  Result(save_data([self EXCEPT !.students = Append(@, student),
                                      !.next_student_id = @ + 1]),
               TRUE, student.student_id, FALSE)

add_test(self) ==
    LET test == Test(self.next_test_id)
    IN  Result(save_data([self EXCEPT !.tests = Append(@, test),
                                      !.next_test_id = @ + 1]),
               TRUE, test.test_id, FALSE)

\* a guard that overlooks the attempts already graded
attempts_of_test_Ungraded(self, test_id) ==
    Filter(self.attempts, LAMBDA a : a.test = test_id /\ a.status # "EVALUATED")

\* a deletion that does not look at the attempts
attempts_of_test_None(self, test_id) == <<>>

\* [a for a in self.attempts if a.test.test_id == test_id]
attempts_of_test(self, test_id) == Filter(self.attempts, LAMBDA a : a.test = test_id)

delete_test(self, test_id) ==
    LET test == find_test_by_id(self, test_id)
        test_attempts == attempts_of_test(self, test_id)
    IN  IF test # 0
        THEN IF test_attempts # <<>>
             THEN Result(self, FALSE, 0, TRUE)
             ELSE Result(save_data([self EXCEPT !.tests = RemoveAt(@, test)]),
                         TRUE, 0, FALSE)
        ELSE Result(self, FALSE, 0, FALSE)

add_question_to_test(self, test_id, question_type, correct_answers, max_points) ==
    LET test == find_test_by_id(self, test_id)
        question == Question(self.next_question_id, question_type, correct_answers, max_points)
    IN  IF test # 0
        THEN Result(save_data([self EXCEPT !.tests[test] = add_question(@, question),
                                           !.next_question_id = @ + 1]),
                    TRUE, question.question_id, FALSE)
        ELSE Result(self, FALSE, 0, FALSE)

\* a deletion that is refused while an attempt holds an answer to the question
delete_question_Guarded(self, test_id, question_id) ==
    LET test == find_test_by_id(self, test_id)
    IN  IF test # 0 /\ \A i \in 1..Len(self.attempts) :
                           \/ self.attempts[i].test # test_id
                           \/ \A k \in DOMAIN self.attempts[i].answers : k[2] # question_id
        THEN Result(save_data([self EXCEPT !.tests[test] = remove_question(@, question_id)]),
                    TRUE, 0, FALSE)
        ELSE Result(self, FALSE, 0, FALSE)

\* a deletion that hands the id of the newest question back to the counter
delete_question_Reuse(self, test_id, question_id) ==
    LET test == find_test_by_id(self, test_id)
    IN  IF test # 0
        THEN Result(save_data([self EXCEPT
                                  !.tests[test] = remove_question(@, question_id),
                                  !.next_question_id =
                                      IF question_id = @ - 1 THEN @ - 1 ELSE @]),
                    TRUE, 0, FALSE)
        ELSE Result(self, FALSE, 0, FALSE)

delete_question(self, test_id, question_id) ==
    LET test == find_test_by_id(self, test_id)
    IN  IF test # 0
        THEN Result(save_data([self EXCEPT !.tests[test] = remove_question(@, question_id)]),
                    TRUE, 0, FALSE)
        ELSE Result(self, FALSE, 0, FALSE)

\* a cap that lets a fourth attempt through
LimitReached_OffByOne(student_attempts) == Len(student_attempts) > MaxAttemptsPerTest

\* len(student_attempts) >= 3
LimitReached(student_attempts) == Len(student_attempts) >= MaxAttemptsPerTest

create_attempt(self, student_id, test_id, now) ==
    LET student == find_student_by_id(self, student_id)
        test == find_test_by_id(self, test_id)
        student_attempts == Filter(self.attempts,
                                   LAMBDA a : a.student = student_id /\ a.test = test_id)
        attempt == TestAttempt(self.next_attempt_id, self.students[student],
                               self.tests[test], now)
    IN  IF student # 0 /\ test # 0
        THEN IF LimitReached(student_attempts)
             THEN Result(self, FALSE, 0, TRUE)
             ELSE Result(save_data([self EXCEPT
                                       !.attempts = Append(@, attempt),
                                       !.students[student] = Student_add_attempt(@, attempt),
                                       !.next_attempt_id = @ + 1]),
                         TRUE, attempt.attempt_id, FALSE)
        ELSE Result(self, FALSE, 0, FALSE)

get_student_attempts(self, student_id, test_id) ==
    Filter(self.attempts, LAMBDA a : a.student = student_id /\ a.test = test_id)

\* the body of the loop of load_data over data['attempts'], from position i on
RECURSIVE load_attempts(_, _, _)
load_attempts(self, attempts_data, i) ==
    IF i > Len(attempts_data) THEN self
    ELSE LET attempt_data == attempts_data[i]
             student == find_student_by_id(self, attempt_data.student_id)
             test == find_test_by_id(self, attempt_data.test_id)
             attempt ==
                 [attempt_id |-> attempt_data.attempt_id,
                  student |-> attempt_data.student_id,
                  test |-> attempt_data.test_id,
                  start_time |-> fromisoformat(attempt_data.start_time),
                  end_time |-> IF attempt_data.end_time # JsonNull
                               THEN fromisoformat(attempt_data.end_time)
                               ELSE None,
                  status |-> attempt_data.status,
                  answers |-> attempt_data.answers,
                  scores |-> attempt_data.scores,
                  final_score |-> attempt_data.final_score,
                  percentage |-> attempt_data.percentage,
                  is_passed |-> attempt_data.is_passed]
         IN  IF student # 0 /\ test # 0
             THEN load_attempts([self EXCEPT
                                    !.attempts = Append(@, attempt),
                                    !.students[student] = Student_add_attempt(@, attempt)],
                                attempts_data, i + 1)
             ELSE load_attempts(self, attempts_data, i + 1)

create_sample_data(self) ==
    LET s1 == add_student(self).self
        s2 == add_student(s1).self
        s3 == add_student(s2).self
        math_test == add_test(s3)
        prog_test == add_test(math_test.self)
        q1 == add_question_to_test(prog_test.self, math_test.id,
                                   "SINGLE_CHOICE", <<"6">>, 1).self
        q2 == add_question_to_test(q1, math_test.id,
                                   "MULTIPLE_CHOICE", <<"2", "7", "11">>, 1).self
        q3 == add_question_to_test(q2, math_test.id, "TEXT_ANSWER", <<>>, 3).self
        q4 == add_question_to_test(q3, prog_test.id, "SINGLE_CHOICE", <<"memory">>, 1).self
        q5 == add_question_to_test(q4, prog_test.id,
                                   "MULTIPLE_CHOICE", <<"Python", "C++", "Java">>, 1).self
    IN  q5

\* the stages at which json.load or load_data can meet content it rejects
LoadStages == {"json", "students", "tests", "attempts", "counters"}

\* a file that is unreadable from the stage on: not JSON; an entry of
\* data['students'] or of data['tests'] in the wrong shape (or the key
\* missing); the last entry of data['attempts'] in the wrong shape (or the key
\* missing when there is no entry); data['counters'] missing
Broken(file, stage) == [exists |-> TRUE, data |-> file.data, bad |-> stage]

\* the stage at which the file is unreadable, "none" for a well-formed file
BadAt(file) == IF "bad" \in DOMAIN file THEN file.bad ELSE "none"

\* what the try block of load_data has assigned when the exception is raised
load_until(self, stage) ==
    LET data == self.disk.data
        with_students == [self EXCEPT !.students = Map(data.students, Student_from_dict)]
        with_tests == [with_students EXCEPT !.tests = Map(data.tests, Test_from_dict)]
    IN  CASE stage \in {"json", "students"} -> self
          [] stage = "tests" -> with_students
          [] stage = "attempts" ->
                 load_attempts(with_tests,
                               SubSeq(data.attempts, 1, Len(data.attempts) - 1), 1)
          [] stage = "counters" -> load_attempts(with_tests, data.attempts, 1)

\* self is the object as __init__ left it
load_data(self) ==
    IF ~self.disk.exists THEN create_sample_data(self)
    ELSE IF BadAt(self.disk) # "none"
    THEN CHOOSE seeded \in {create_sample_data(partial) :
                                partial \in {load_until(self, BadAt(self.disk))}} : TRUE
    ELSE LET data == self.disk.data
             loaded == [self EXCEPT !.students = Map(data.students, Student_from_dict),
                                    !.tests = Map(data.tests, Test_from_dict)]
             linked == load_attempts(loaded, data.attempts, 1)
         IN  [linked EXCEPT !.next_student_id = data.counters.student,
                            !.next_test_id = data.counters.test,
                            !.next_attempt_id = data.counters.attempt,
                            !.next_question_id = data.counters.question]

\* TestingSystem(system_name)
TestingSystem(file) == load_data(TestingSystem_init(file))

(***************************************************************************)
(* The cafe of OOP1L.py.  Texts that no decision reads (title, info,       *)
(* group, full_name, mail, cafe_name) are left out; a cost is a whole      *)
(* number of roubles.  The Dish object a line refers to is held as the num *)
(* and the cost of that object, which no method changes; the Client an     *)
(* order refers to and the orders of a client are held as their ids.       *)
(***************************************************************************)
Dish(num, cost) == [num |-> num, cost |-> cost, active |-> TRUE]

Dish_switch_active(dish) == [dish EXCEPT !.active = ~@]

Dish_to_json(dish) == [num |-> dish.num, cost |-> dish.cost, active |-> dish.active]

Dish_from_json(data) == [Dish(data.num, data.cost) EXCEPT !.active = data.active]

OrderLine(dish, count, comment) ==
    [dish |-> [num |-> dish.num, cost |-> dish.cost],
     count |-> count,
     comment |-> comment,
     sum |-> dish.cost * count]

\* a change of the count that leaves the sum of the line as it was
OrderLine_change_count_StaleSum(line, new_count) == [line EXCEPT !.count = new_count]

OrderLine_change_count(line, new_count) ==
    [line EXCEPT !.count = new_count, !.sum = line.dish.cost * new_count]

Client(client_id, phone_num) ==
    [client_id |-> client_id, phone_num |-> phone_num, orders |-> <<>>]

Client_add_order(client, order) == [client EXCEPT !.orders = Append(@, order.order_num)]

Client_to_json(client) == [client_id |-> client.client_id, phone_num |-> client.phone_num]

Client_from_json(data) == Client(data.client_id, data.phone_num)

Order(order_num, client, now) ==
    [order_num |-> order_num,
     client |-> client.client_id,
     lines |-> <<>>,
     date |-> now,
     state |-> "WAITING",
     pay_state |-> "NOT_PAID",
     total |-> 0,
     comments |-> ""]

calc_total(order) == [order EXCEPT !.total = SumSeq(Map(order.lines, LAMBDA line : line.sum))]

\* the order after the call, and whether the call raised ValueError
Order_add_dish(order, dish, count, comment) ==
    LET hit == FirstIndex(order.lines,
                          LAMBDA line : line.dish.num = dish.num /\ line.comment = comment)
    IN  IF ~dish.active
        THEN [order |-> order, raised |-> TRUE]
        ELSE IF hit # 0
        THEN [order |-> calc_total([order EXCEPT !.lines[hit] =
                                       OrderLine_change_count(@, @.count + count)]),
              raised |-> FALSE]
        ELSE [order |-> calc_total([order EXCEPT !.lines =
                                       Append(@, OrderLine(dish, count, comment))]),
              raised |-> FALSE]

Order_remove_dish(order, dish_num) ==
    calc_total([order EXCEPT !.lines = Filter(@, LAMBDA line : line.dish.num # dish_num)])

Order_change_count(order, dish_num, new_count) ==
    LET hit == FirstIndex(order.lines, LAMBDA line : line.dish.num = dish_num)
    IN  IF hit = 0
        THEN order
        ELSE IF new_count <= 0
        THEN calc_total(Order_remove_dish(order, dish_num))
        ELSE calc_total([order EXCEPT !.lines[hit] = OrderLine_change_count(@, new_count)])

Order_set_state(order, new_state) == [order EXCEPT !.state = new_state]

Order_set_pay_state(order, new_pay_state) == [order EXCEPT !.pay_state = new_pay_state]

Order_to_json(order) ==
    [order_num |-> order.order_num,
     client_id |-> order.client,
     lines |-> Map(order.lines,
                   LAMBDA line : [dish_num |-> line.dish.num,
                                  count |-> line.count,
                                  comment |-> line.comment]),
     date |-> isoformat(order.date),
     state |-> order.state,
     pay_state |-> order.pay_state,
     total |-> order.total,
     comments |-> order.comments]

(***************************************************************************)
(* Cafe.  self is the record of the object's fields; the file              *)
(* cafe_data.json travels with it as the field file.                       *)
(***************************************************************************)
\* __init__ before load
Cafe_init(file) ==
    [dishes |-> <<>>, clients |-> <<>>, orders |-> <<>>,
     next_order_num |-> 1, next_client_num |-> 1, next_dish_num |-> 1,
     file |-> file]

save(self) ==
    [self EXCEPT !.file =
        [exists |-> TRUE,
         data |-> [dishes |-> Map(self.dishes, Dish_to_json),
                   clients |-> Map(self.clients, Client_to_json),
                   orders |-> Map(self.orders, Order_to_json),
                   counters |-> [order |-> self.next_order_num,
                                 client |-> self.next_client_num,
                                 dish |-> self.next_dish_num]]]]

new_dish(self, cost) ==
    LET dish == Dish(self.next_dish_num, cost)
    IN  Result(save([self EXCEPT !.dishes = Append(@, dish),
                                 !.next_dish_num = @ + 1]),
               TRUE, dish.num, FALSE)

\* index into self.dishes, 0 for None
find_dish(self, dish_num) == FirstIndex(self.dishes, LAMBDA dish : dish.num = dish_num)

\* the states of an order that is still being served
OpenStates == {"WAITING", "ACCEPTED", "COOKING"}

\* the orders being served that have a line of the dish
used_in(self, dish_num) ==
    Filter(self.orders,
           LAMBDA order : /\ order.state \in OpenStates
                          /\ \E k \in 1..Len(order.lines) : order.lines[k].dish.num = dish_num)

delete_dish(self, dish_num) ==
    LET dish == find_dish(self, dish_num)
    IN  IF dish # 0
        THEN IF used_in(self, dish_num) # <<>>
             THEN Result(self, FALSE, 0, TRUE)
             ELSE Result(save([self EXCEPT !.dishes = RemoveAt(@, dish)]), TRUE, 0, FALSE)
        ELSE Result(self, FALSE, 0, FALSE)

\* index into self.clients, 0 for None
find_client_by_phone(self, phone_num) ==
    FirstIndex(self.clients, LAMBDA client : client.phone_num = phone_num)

find_client_by_id(self, client_id) ==
    FirstIndex(self.clients, LAMBDA client : client.client_id = client_id)

new_client(self, phone_num) ==
    LET found == find_client_by_phone(self, phone_num)
        client == Client(self.next_client_num, phone_num)
    IN  IF found # 0
        THEN Result(self, TRUE, self.clients[found].client_id, FALSE)
        ELSE Result(save([self EXCEPT !.clients = Append(@, client),
                                      !.next_client_num = @ + 1]),
                    TRUE, client.client_id, FALSE)

\* client is the position in self.clients of the Client object passed
create_order(self, client, now) ==
    LET order == Order(self.next_order_num, self.clients[client], now)
    IN  Result(save([self EXCEPT !.orders = Append(@, order),
                                 !.clients[client] = Client_add_order(@, order),
                                 !.next_order_num = @ + 1]),
               TRUE, order.order_num, FALSE)

\* the loop over order_data['lines']: the order with the lines added, and
\* whether add_dish raised
RECURSIVE load_lines(_, _, _)
load_lines(self, order, lines) ==
    IF lines = <<>>
    THEN [order |-> order, raised |-> FALSE]
    ELSE LET line_data == Head(lines)
             dish == find_dish(self, line_data.dish_num)
         IN  IF dish = 0
             THEN load_lines(self, order, Tail(lines))
             ELSE LET added == Order_add_dish(order, self.dishes[dish],
                                              line_data.count, line_data.comment)
                  IN  IF added.raised
                      THEN [order |-> added.order, raised |-> TRUE]
                      ELSE load_lines(self, added.order, Tail(lines))

\* the loop over data['orders']: the object with the orders restored up to
\* the one in which add_dish raised
RECURSIVE load_orders(_, _)
load_orders(self, orders) ==
    IF orders = <<>>
    THEN [self |-> self, raised |-> FALSE]
    ELSE LET order_data == Head(orders)
             client == find_client_by_id(self, order_data.client_id)
         IN  IF client = 0
             THEN load_orders(self, Tail(orders))
             ELSE LET order == [Order(order_data.order_num, self.clients[client], 0)
                                   EXCEPT !.date = fromisoformat(order_data.date),
                                          !.state = order_data.state,
                                          !.pay_state = order_data.pay_state,
                                          !.total = order_data.total,
                                          !.comments = order_data.comments]
                      filled == load_lines(self, order, order_data.lines)
                  IN  IF filled.raised
                      THEN [self |-> self, raised |-> TRUE]
                      ELSE load_orders([self EXCEPT !.orders = Append(@, filled.order),
                                                    !.clients[client] =
                                                        Client_add_order(@, filled.order)],
                                       Tail(orders))

\* the costs of the four dishes of create_test_data
TestDishes == <<480, 360, 290, 320>>

RECURSIVE new_dishes(_, _)
new_dishes(self, costs) ==
    IF costs = <<>> THEN self
    ELSE new_dishes(new_dish(self, Head(costs)).self, Tail(costs))

\* four new_dish calls, each saving, then the last dish of the menu is
\* switched off without a save
create_test_data(self) ==
    LET menu == new_dishes(self, TestDishes)
    IN  [menu EXCEPT !.dishes[Len(menu.dishes)] = Dish_switch_active(@)]

\* the file is one that save wrote, so that the only exception besides
\* FileNotFoundError is the ValueError of add_dish
load(self) ==
    IF ~self.file.exists
    THEN create_test_data(self)
    ELSE LET data == self.file.data
             loaded == load_orders([self EXCEPT
                                       !.dishes = Map(data.dishes, Dish_from_json),
                                       !.clients = Map(data.clients, Client_from_json)],
                                   data.orders)
         IN  IF loaded.raised
             THEN create_test_data(loaded.self)
             ELSE [loaded.self EXCEPT !.next_order_num = data.counters.order,
                                      !.next_client_num = data.counters.client,
                                      !.next_dish_num = data.counters.dish]

Cafe(file) == load(Cafe_init(file))

(***************************************************************************)
(* State.  students, tests, attempts and the four counters are the fields  *)
(* of the one TestingSystem object; disk is testing_system_data.json;      *)
(* clock is the last reading of datetime.now(); ret is the last call and   *)
(* what it returned; steps counts the calls made since the first run.      *)
(* cafe holds the fields of the one Cafe object of the cafe program and    *)
(* cafe_data is cafe_data.json; the two programs do not run together.      *)
(***************************************************************************)
Self ==
    [students |-> students, tests |-> tests, attempts |-> attempts,
     next_student_id |-> next_student_id, next_test_id |-> next_test_id,
     next_attempt_id |-> next_attempt_id, next_question_id |-> next_question_id,
     disk |-> disk]

\* the variables hold the fields of self
Holds(self) ==
    /\ students = self.students
    /\ tests = self.tests
    /\ attempts = self.attempts
    /\ next_student_id = self.next_student_id
    /\ next_test_id = self.next_test_id
    /\ next_attempt_id = self.next_attempt_id
    /\ next_question_id = self.next_question_id
    /\ disk = self.disk

Commit(self) ==
    /\ students' = self.students
    /\ tests' = self.tests
    /\ attempts' = self.attempts
    /\ next_student_id' = self.next_student_id
    /\ next_test_id' = self.next_test_id
    /\ next_attempt_id' = self.next_attempt_id
    /\ next_question_id' = self.next_question_id
    /\ disk' = self.disk

\* arg holds the argument or the value of a query; the operations leave it empty
\* the Cafe object the variables hold
CafeSelf ==
    [dishes |-> cafe.dishes, clients |-> cafe.clients, orders |-> cafe.orders,
     next_order_num |-> cafe.next_order_num, next_client_num |-> cafe.next_client_num,
     next_dish_num |-> cafe.next_dish_num,
     file |-> cafe_data]

CafeFields(self) ==
    [dishes |-> self.dishes, clients |-> self.clients, orders |-> self.orders,
     next_order_num |-> self.next_order_num, next_client_num |-> self.next_client_num,
     next_dish_num |-> self.next_dish_num]

CafeHolds(self) ==
    /\ cafe = CafeFields(self)
    /\ cafe_data = self.file

CafeCommit(self) ==
    /\ cafe' = CafeFields(self)
    /\ cafe_data' = self.file

\* the cafe program has not been started and has left no file
CafeClosed == CafeHolds(Cafe_init(NoFile))

Returned(op, r) == [op |-> op, ok |-> r.ok, id |-> r.id, warn |-> r.warn, arg |-> <<>>]

\* one call: the object after it and what it returned
Return(op, r) ==
    /\ steps < MaxSteps
    /\ steps' = steps + 1
    /\ \E done \in {r} :
          /\ Commit(done.self)
          /\ ret' = Returned(op, done)
    /\ UNCHANGED <<cafe, cafe_data>>

\* the Test object attempt.test refers to
TestOf(self, attempt) == self.tests[find_test_by_id(self, attempt.test)]

\* self with its attempt at position i replaced
WithAttempt(self, i, attempt) == [self EXCEPT !.attempts[i] = attempt]

(***************************************************************************)
(* The file an earlier run of the program left behind: student 1 took test *)
(* 1 (questions 1, 2, 3), answered question 1 rightly and was graded 2     *)
(* points for the text question 3; save_data then wrote everything.        *)
(***************************************************************************)
\* F applied to the value of x, x being worked out once
Once(x, F(_)) == CHOOSE y \in {F(v) : v \in {x}} : TRUE

FreshInstall == Once(NoFile, TestingSystem)

EarlierCreated == Once(FreshInstall, LAMBDA s : create_attempt(s, 1, 1, 1).self)

EarlierStarted ==
    Once(EarlierCreated, LAMBDA s : WithAttempt(s, 1, start_attempt(s.attempts[1], 2)))

EarlierAnswered ==
    Once(EarlierStarted,
         LAMBDA s : WithAttempt(s, 1, submit_answer(s.attempts[1], TestOf(s, s.attempts[1]),
                                                    1, <<"6">>)))

EarlierFinished ==
    Once(EarlierAnswered,
         LAMBDA s : WithAttempt(s, 1, finish_attempt(s.attempts[1], TestOf(s, s.attempts[1]), 3)))

EarlierEvaluated ==
    Once(EarlierFinished,
         LAMBDA s : WithAttempt(s, 1, evaluate_attempt(s.attempts[1], TestOf(s, s.attempts[1]),
                                                       DictSet(EmptyDict, IntKey(3), 2))))

EarlierRun == Once(EarlierEvaluated, save_data)

\* what the process finds when it starts: the file, and the time of day
Installations ==
    {[file |-> NoFile, clock |-> 0], [file |-> EarlierRun.disk, clock |-> 4]}

\* TestingSystem is constructed: on the first run, or on a file of an earlier run
Init ==
    /\ \E inst \in Installations :
          /\ Holds(TestingSystem(inst.file))
          /\ clock = inst.clock
    /\ steps = 0
    /\ ret = [op |-> "init", ok |-> TRUE, id |-> 0, warn |-> FALSE, arg |-> <<>>]
    /\ CafeClosed

\* inputs: the ids in use and the next one, which no entity has yet
StudentIds == {1, 2, next_student_id}
TestIds == 1..next_test_id
\* the ids of the questions of the test with this id, and one of no question of it
QuestionIdsOf(test_id) ==
    {next_question_id} \cup
    UNION {Range(Map(t.questions, LAMBDA q : q.question_id)) :
             t \in {x \in Range(tests) : x.test_id = test_id}}
\* what a list of the window offers: the tests, and the questions of a test
ListedTests == {t.test_id : t \in Range(tests)}
ListedQuestions(test_id) == QuestionIdsOf(test_id) \ {next_question_id}
NewQuestions ==
    {<<"SINGLE_CHOICE", <<"6">>, 6>>, <<"TEXT_ANSWER", <<>>, 3>>}
Submissions == {<<"6">>, <<"2", "7">>}
ManualPoints == {2}

\* a reading of datetime.now(): later than the last one
Now == clock + 1

(***************************************************************************)
(* Registry operations, as TestingSystemApp's handlers call them.          *)
(***************************************************************************)
AddStudent ==
    /\ Return("add_student", add_student(Self))
    /\ UNCHANGED clock

AddTest ==
    /\ Return("add_test", add_test(Self))
    /\ UNCHANGED clock

DeleteTest(test_id) ==
    /\ Return("delete_test", delete_test(Self, test_id))
    /\ UNCHANGED clock

AddQuestionToTest(test_id, q) ==
    /\ Return("add_question_to_test", add_question_to_test(Self, test_id, q[1], q[2], q[3]))
    /\ UNCHANGED clock

DeleteQuestion(test_id, question_id) ==
    /\ Return("delete_question", delete_question(Self, test_id, question_id))
    /\ UNCHANGED clock

CreateAttempt(student_id, test_id) ==
    /\ Return("create_attempt", create_attempt(Self, student_id, test_id, Now))
    /\ clock' = IF ret'.ok THEN Now ELSE clock

\* TestingSystemApp.toggle_test_status
toggle_test_status(self, test_id) ==
    LET test == find_test_by_id(self, test_id)
    IN  IF test # 0
        THEN Result(save_data([self EXCEPT !.tests[test] = Test_toggle_active(@)]),
                    TRUE, 0, FALSE)
        ELSE Result(self, FALSE, 0, FALSE)

\* a switch that also regrades the attempts on the test
toggle_question_status_Regrade(self, test_id, question_id) ==
    LET test == find_test_by_id(self, test_id)
        question == IF test = 0 THEN 0
                    ELSE FirstIndex(self.tests[test].questions,
                                    LAMBDA q : q.question_id = question_id)
        switched == [self EXCEPT
                        !.tests[test].questions[question] = Question_toggle_active(@)]
    IN  IF test # 0 /\ question # 0
        THEN Result(save_data([switched EXCEPT
                                  !.attempts = Map(@, LAMBDA a :
                                      IF a.test = test_id
                                      THEN calculate_score(a, switched.tests[test])
                                      ELSE a)]),
                    TRUE, 0, FALSE)
        ELSE Result(self, FALSE, 0, FALSE)

\* TestingSystemApp.toggle_question_status
toggle_question_status(self, test_id, question_id) ==
    LET test == find_test_by_id(self, test_id)
        question == IF test = 0 THEN 0
                    ELSE FirstIndex(self.tests[test].questions,
                                    LAMBDA q : q.question_id = question_id)
    IN  IF test # 0 /\ question # 0
        THEN Result(save_data([self EXCEPT
                                  !.tests[test].questions[question] = Question_toggle_active(@)]),
                    TRUE, 0, FALSE)
        ELSE Result(self, FALSE, 0, FALSE)

ToggleTestStatus(test_id) ==
    /\ Return("toggle_test_status", toggle_test_status(Self, test_id))
    /\ UNCHANGED clock

ToggleQuestionStatus(test_id, question_id) ==
    /\ Return("toggle_question_status", toggle_question_status(Self, test_id, question_id))
    /\ UNCHANGED clock

SaveData ==
    /\ Return("save_data", Result(save_data(Self), TRUE, 0, FALSE))
    /\ UNCHANGED clock

\* the process ends and a new one constructs TestingSystem from the file
Restart ==
    /\ Return("init", Result(TestingSystem(disk), TRUE, 0, FALSE))
    /\ UNCHANGED clock

(***************************************************************************)
(* TestAttempt methods on the attempt at position i of self.attempts.      *)
(* None of them calls save_data.                                           *)
(***************************************************************************)
Called(op, i, attempt) ==
    Return(op, Result(WithAttempt(Self, i, attempt), TRUE, attempts[i].attempt_id, FALSE))

StartAttempt(i) ==
    /\ Called("start_attempt", i, start_attempt(attempts[i], Now))
    /\ clock' = Now

SubmitAnswer(i, question_id, answers) ==
    /\ Called("submit_answer", i,
              submit_answer(attempts[i], TestOf(Self, attempts[i]), question_id, answers))
    /\ UNCHANGED clock

FinishAttempt(i) ==
    /\ Called("finish_attempt", i,
              finish_attempt(attempts[i], TestOf(Self, attempts[i]), Now))
    /\ clock' = Now

EvaluateAttempt(i, manual_scores) ==
    /\ Called("evaluate_attempt", i,
              evaluate_attempt(attempts[i], TestOf(Self, attempts[i]), manual_scores))
    /\ UNCHANGED clock

\* None, or the points of one question of the attempt's test
ManualScores(i) ==
    {EmptyDict} \cup {DictSet(EmptyDict, IntKey(q), p) :
                        q \in QuestionIdsOf(attempts[i].test), p \in ManualPoints}

Next ==
    \/ AddStudent
    \/ AddTest
    \/ \E test_id \in TestIds : DeleteTest(test_id)
    \/ \E test_id \in TestIds, q \in NewQuestions : AddQuestionToTest(test_id, q)
    \/ \E test_id \in TestIds : \E question_id \in QuestionIdsOf(test_id) :
          DeleteQuestion(test_id, question_id)
    \/ \E student_id \in StudentIds, test_id \in TestIds : CreateAttempt(student_id, test_id)
    \/ \E test_id \in ListedTests : ToggleTestStatus(test_id)
    \/ \E test_id \in ListedTests : \E question_id \in ListedQuestions(test_id) :
          ToggleQuestionStatus(test_id, question_id)
    \/ SaveData
    \/ Restart
    \/ \E i \in 1..Len(attempts) : StartAttempt(i)
    \/ \E i \in 1..Len(attempts), answers \in Submissions :
          \E question_id \in QuestionIdsOf(attempts[i].test) :
              SubmitAnswer(i, question_id, answers)
    \/ \E i \in 1..Len(attempts) : FinishAttempt(i)
    \/ \E i \in 1..Len(attempts) : \E manual_scores \in ManualScores(i) :
          EvaluateAttempt(i, manual_scores)

Spec == Init /\ [][Next]_vars

(***************************************************************************)
(* Grading.  The attempt methods and the question edits of a test, from    *)
(* the states a running process is in once a student has opened an attempt *)
(* on the demonstration test 1 (questions worth 1, 1 and 3 points) or on a *)
(* new test 3 with a single-choice question worth 6 points and a text      *)
(* question worth 3, with some of the test's questions switched off.       *)
(***************************************************************************)
ThirdTest == Once(FreshInstall, LAMBDA s : add_test(s).self)

ThirdTestQ6 ==
    Once(ThirdTest, LAMBDA s : add_question_to_test(s, 3, "SINGLE_CHOICE", <<"6">>, 6).self)

ThirdTestQ7 ==
    Once(ThirdTestQ6, LAMBDA s : add_question_to_test(s, 3, "TEXT_ANSWER", <<>>, 3).self)

\* question 7 of test 3 switched off
ThirdTestQ6Only == Once(ThirdTestQ7, LAMBDA s : toggle_question_status(s, 3, 7).self)

FirstTestOff1 == Once(ThirdTestQ7, LAMBDA s : toggle_question_status(s, 1, 1).self)

FirstTestOff2 == Once(FirstTestOff1, LAMBDA s : toggle_question_status(s, 1, 2).self)

\* questions 1, 2 and 3 of test 1 switched off
FirstTestOff == Once(FirstTestOff2, LAMBDA s : toggle_question_status(s, 1, 3).self)

GradingRuns ==
    {create_attempt(s, 1, 1, 1).self : s \in {ThirdTestQ7, FirstTestOff}}
    \cup {create_attempt(s, 1, 3, 1).self : s \in {ThirdTestQ7, ThirdTestQ6Only}}

InitGrading ==
    /\ \E run \in GradingRuns : Holds(run)
    /\ clock = 1
    /\ steps = 0
    /\ ret = [op |-> "create_attempt", ok |-> TRUE, id |-> 1, warn |-> FALSE, arg |-> <<>>]
    /\ CafeClosed

GradingSubmissions == {<<>>, <<"6">>, <<"8">>, <<"7", "2", "11">>, <<"2", "7">>}
GradingPoints == {2, 5}

GradingScores(i) ==
    {EmptyDict} \cup {DictSet(EmptyDict, IntKey(q), p) :
                        q \in QuestionIdsOf(attempts[i].test), p \in GradingPoints}

\* the tests that have an attempt
AttemptedTests == {attempts[i].test : i \in 1..Len(attempts)}

NextGrading ==
    \/ \E i \in 1..Len(attempts) : StartAttempt(i)
    \/ \E i \in 1..Len(attempts), answers \in GradingSubmissions :
          \E question_id \in QuestionIdsOf(attempts[i].test) :
              SubmitAnswer(i, question_id, answers)
    \/ \E i \in 1..Len(attempts) : FinishAttempt(i)
    \/ \E i \in 1..Len(attempts) : \E manual_scores \in GradingScores(i) :
          EvaluateAttempt(i, manual_scores)
    \/ \E test_id \in AttemptedTests : \E question_id \in ListedQuestions(test_id) :
          ToggleQuestionStatus(test_id, question_id)
    \/ \E test_id \in AttemptedTests : \E question_id \in ListedQuestions(test_id) :
          DeleteQuestion(test_id, question_id)
    \/ \E test_id \in AttemptedTests, q \in NewQuestions : AddQuestionToTest(test_id, q)

SpecGrading == InitGrading /\ [][NextGrading]_vars

(***************************************************************************)
(* A sitting.  The attempt methods on an attempt whose test is left as it  *)
(* was when the attempt was created: answers are submitted for questions   *)
(* that are switched on, and the attempt is evaluated without manual       *)
(* scores.  Nothing is saved or loaded.                                    *)
(***************************************************************************)
\* the ids of the questions of the attempt's test that are switched on
ActiveQuestionIds(i) ==
    Range(Map(get_active_questions(TestOf(Self, attempts[i])), LAMBDA q : q.question_id))

NextSitting ==
    \/ \E i \in 1..Len(attempts) : StartAttempt(i)
    \/ \E i \in 1..Len(attempts), answers \in GradingSubmissions :
          \E question_id \in ActiveQuestionIds(i) :
              SubmitAnswer(i, question_id, answers)
    \/ \E i \in 1..Len(attempts) : FinishAttempt(i)
    \/ \E i \in 1..Len(attempts) : EvaluateAttempt(i, EmptyDict)

SpecSitting == InitGrading /\ [][NextSitting]_vars

(***************************************************************************)
(* Answer checking.  check_answer applied to the questions of a registry   *)
(* whose test 1 has, besides the demonstration questions, one question of  *)
(* either choice type with any list of correct answers of up to two        *)
(* options, or a text question.                                            *)
(***************************************************************************)
MaxAnswers == 3

Options == {"2", "7", "11"}

\* the lists of at most n options
RECURSIVE Lists(_)
Lists(n) ==
    IF n = 0 THEN {<<>>}
    ELSE Lists(n - 1) \cup {Append(l, o) : l \in {x \in Lists(n - 1) : Len(x) = n - 1}, o \in Options}

\* a text question is created without correct answers
CheckedQuestions ==
    {<<question_type, correct_answers>> \in QuestionType \X Lists(2) :
        question_type = "TEXT_ANSWER" => correct_answers = <<>>}

CheckedInstalls ==
    {add_question_to_test(s, 1, q[1], q[2], 1).self : s \in {FreshInstall}, q \in CheckedQuestions}

InitCheck ==
    /\ \E install \in CheckedInstalls : Holds(install)
    /\ clock = 0
    /\ steps = 0
    /\ ret = [op |-> "add_question_to_test", ok |-> TRUE, id |-> 6, warn |-> FALSE, arg |-> <<>>]
    /\ CafeClosed

\* question.check_answer(user_answers) on question j of test i; a query, which
\* the budget of operations does not count
CheckAnswer(i, j, user_answers) ==
    /\ ret' = [op |-> "check_answer",
               ok |-> check_answer(tests[i].questions[j], user_answers),
               id |-> tests[i].questions[j].question_id,
               warn |-> FALSE,
               arg |-> user_answers]
    /\ UNCHANGED <<students, tests, attempts, next_student_id, next_test_id,
                   next_attempt_id, next_question_id, disk, clock, steps,
                   cafe, cafe_data>>

\* the questions of the test that the question was added to
NextCheck ==
    \E i \in {find_test_by_id(Self, 1)} : \E j \in 1..Len(tests[i].questions) :
        \E user_answers \in Lists(MaxAnswers) : CheckAnswer(i, j, user_answers)

SpecCheck == InitCheck /\ [][NextCheck]_vars

(***************************************************************************)
(* Statistics.  Percentages and their means are exact fractions; a         *)
(* duration is counted in readings of the clock, taken as minutes.         *)
(***************************************************************************)
\* a + b and a / n of fractions, n > 0
FracAdd(a, b) ==
    CHOOSE s \in {Frac(x.num * y.den + y.num * x.den, x.den * y.den) : x \in {a}, y \in {b}} : TRUE

FracDiv(a, n) == Frac(a.num, a.den * n)

\* a < b
FracLess(a, b) == a.num * b.den < b.num * a.den

\* sum(...) of a list of fractions
RECURSIVE SumFracs(_)
SumFracs(seq) == IF seq = <<>> THEN Frac(0, 1) ELSE FracAdd(Head(seq), SumFracs(Tail(seq)))

\* a filter that takes the attempts of the test in any status
evaluated_of_test_AnyStatus(self, test_id) ==
    Filter(self.attempts, LAMBDA a : a.test = test_id)

\* [a for a in self.attempts if a.test.test_id == test_id and a.status == EVALUATED]
evaluated_of_test(self, test_id) ==
    Filter(self.attempts, LAMBDA a : a.test = test_id /\ a.status = "EVALUATED")

\* the dict returned, as <<total_attempts, passed_attempts, success_rate,
\* avg_score, avg_time>> with each of the last three as numerator and
\* denominator; <<>> for None
get_test_statistics(self, test_id) ==
    LET test_attempts == evaluated_of_test(self, test_id)
        total_attempts == Len(test_attempts)
        passed_attempts == Len(Filter(test_attempts, LAMBDA a : a.is_passed))
        success_rate == Frac(passed_attempts * 100, total_attempts)
        avg_score == FracDiv(SumFracs(Map(test_attempts, LAMBDA a : a.percentage)),
                             total_attempts)
        avg_time == Frac(SumSeq(Map(test_attempts, get_duration)), total_attempts)
    IN  IF test_attempts = <<>> THEN <<>>
        ELSE <<total_attempts, passed_attempts, success_rate.num, success_rate.den,
               avg_score.num, avg_score.den, avg_time.num, avg_time.den>>

\* [a for a in student.test_attempts if a.status == EVALUATED]
evaluated_of_student(self, student) ==
    Filter(Map(student.test_attempts,
               LAMBDA id : self.attempts[FirstIndex(self.attempts,
                                                    LAMBDA a : a.attempt_id = id)]),
           LAMBDA a : a.status = "EVALUATED")

\* the sort key of generate_statistics: the mean percentage of the student's
\* evaluated attempts
mean_percentage(self, student) ==
    FracDiv(SumFracs(Map(evaluated_of_student(self, student), LAMBDA a : a.percentage)),
            Len(evaluated_of_student(self, student)))

\* x put into a list sorted by key, descending, behind the elements whose key
\* is not less than its own
Inserted(sorted, x) ==
    LET ahead == Cardinality({k \in 1..Len(sorted) : ~FracLess(sorted[k].key, x.key)})
    IN  SubSeq(sorted, 1, ahead) \o <<x>> \o SubSeq(sorted, ahead + 1, Len(sorted))

\* sorted(..., reverse=True) of a list of [key, item] records: a stable sort
RECURSIVE sorted_reverse(_)
sorted_reverse(pairs) ==
    IF pairs = <<>> THEN <<>>
    ELSE CHOOSE out \in {Inserted(rest, pairs[Len(pairs)]) :
                            rest \in {sorted_reverse(SubSeq(pairs, 1, Len(pairs) - 1))}} : TRUE

TopStudentsShown == 5

\* a ranking that is not cut
Shown_All(ranking) == ranking

\* [:5]
Shown(ranking) == SubSeq(ranking, 1, IF Len(ranking) < TopStudentsShown
                                     THEN Len(ranking) ELSE TopStudentsShown)

\* top_students of generate_statistics, as the list of their student ids
top_students(self) ==
    LET students_with_evaluated_attempts ==
            Filter(self.students, LAMBDA s : evaluated_of_student(self, s) # <<>>)
        keyed == Map(students_with_evaluated_attempts,
                     LAMBDA s : [key |-> mean_percentage(self, s), item |-> s.student_id])
    IN  Map(Shown(sorted_reverse(keyed)), LAMBDA p : p.item)

(***************************************************************************)
(* The states the statistics are taken from: a running process in which    *)
(* six students each opened an attempt on test 1 and student 1 another on  *)
(* test 2, attempt 1 was started and finished, and the attempts 1 to 5 and *)
(* 7 were evaluated; or the process of the earlier run, before it saved.   *)
(***************************************************************************)
\* create_attempt on test 1 for each student of the list, a reading of the
\* clock apart
RECURSIVE Enrolled(_, _, _)
Enrolled(self, student_ids, now) ==
    IF student_ids = <<>> THEN self
    ELSE CHOOSE done \in {Enrolled(create_attempt(s, Head(student_ids), 1, now).self,
                                   Tail(student_ids), now + 1) : s \in {self}} : TRUE

\* evaluate_attempt on the attempts i, i + 1, ... with the points of the list
\* as manual score of question 3
RECURSIVE Marked(_, _, _)
Marked(self, points, i) ==
    IF i > Len(points) THEN self
    ELSE CHOOSE done \in
             {Marked(WithAttempt(s, i, evaluate_attempt(s.attempts[i], TestOf(s, s.attempts[i]),
                                                        DictSet(EmptyDict, IntKey(3), points[i]))),
                     points, i + 1) : s \in {self}} : TRUE

SixStudents ==
    Once(FreshInstall, LAMBDA s : add_student(add_student(add_student(s).self).self).self)

Cohort == Once(SixStudents, LAMBDA s : Enrolled(s, <<1, 2, 3, 4, 5, 6>>, 1))

CohortSecond == Once(Cohort, LAMBDA s : create_attempt(s, 1, 2, 7).self)

CohortTimed ==
    Once(CohortSecond,
         LAMBDA s : WithAttempt(s, 1, finish_attempt(start_attempt(s.attempts[1], 8),
                                                     TestOf(s, s.attempts[1]), 10)))

\* 60, 20, 60, 0 and 20 percent on test 1
CohortMarked == Once(CohortTimed, LAMBDA s : Marked(s, <<3, 1, 3, 0, 1>>, 1))

\* 50 percent on test 2
CohortRun ==
    Once(CohortMarked,
         LAMBDA s : WithAttempt(s, 7, evaluate_attempt(s.attempts[7], TestOf(s, s.attempts[7]),
                                                       DictSet(EmptyDict, IntKey(4), 1))))

StatisticsRuns == {CohortRun, EarlierEvaluated}

InitStatistics ==
    /\ \E run \in StatisticsRuns : Holds(run)
    /\ clock = 10
    /\ steps = 0
    /\ ret = [op |-> "evaluate_attempt", ok |-> TRUE, id |-> 1, warn |-> FALSE, arg |-> <<>>]
    /\ CafeClosed

\* get_test_statistics(test_id): a query, which the budget of operations does
\* not count; ret.arg is what it returned
GetTestStatistics(test_id) ==
    /\ \E stats \in {get_test_statistics(Self, test_id)} :
          ret' = [op |-> "get_test_statistics", ok |-> stats # <<>>, id |-> test_id,
                  warn |-> FALSE, arg |-> stats]
    /\ UNCHANGED <<students, tests, attempts, next_student_id, next_test_id,
                   next_attempt_id, next_question_id, disk, clock, steps,
                   cafe, cafe_data>>

\* generate_statistics: ret.arg is the list of the best students
GenerateStatistics ==
    /\ \E top \in {top_students(Self)} :
          ret' = [op |-> "generate_statistics", ok |-> top # <<>>, id |-> 0,
                  warn |-> FALSE, arg |-> top]
    /\ UNCHANGED <<students, tests, attempts, next_student_id, next_test_id,
                   next_attempt_id, next_question_id, disk, clock, steps,
                   cafe, cafe_data>>

StatisticsScores == {EmptyDict, DictSet(EmptyDict, IntKey(3), 2)}

NextStatistics ==
    \/ \E student_id \in StudentIds, test_id \in TestIds : CreateAttempt(student_id, test_id)
    \/ \E i \in 1..Len(attempts) : FinishAttempt(i)
    \/ \E i \in 1..Len(attempts), manual_scores \in StatisticsScores :
          EvaluateAttempt(i, manual_scores)
    \/ \E test_id \in TestIds : GetTestStatistics(test_id)
    \/ GenerateStatistics

SpecStatistics == InitStatistics /\ [][NextStatistics]_vars

(***************************************************************************)
(* Faults.  The registry operations with a write that may fail (open or    *)
(* json.dump raises, save_data prints the error and returns; the file is   *)
(* taken to stay as it was), and a file that something other than the      *)
(* program removed or left unreadable from some stage on.                  *)
(***************************************************************************)
WriteOutcomes == {"written", "refused"}

\* a write failure that undoes the operation
AfterWrite_Rollback(self, r, outcome) ==
    IF outcome = "refused" /\ r.ok THEN Result(self, FALSE, 0, FALSE) ELSE r

\* r is what an operation on self yields when its save_data succeeds (the
\* operations save exactly when they return a value); under a refused write
\* the except branch of save_data leaves everything but the file as it is
AfterWrite(self, r, outcome) ==
    IF outcome = "refused" /\ r.ok THEN [r EXCEPT !.self.disk = self.disk] ELSE r

AddStudentW(outcome) ==
    /\ Return("add_student", AfterWrite(Self, add_student(Self), outcome))
    /\ UNCHANGED clock

AddTestW(outcome) ==
    /\ Return("add_test", AfterWrite(Self, add_test(Self), outcome))
    /\ UNCHANGED clock

DeleteTestW(test_id, outcome) ==
    /\ Return("delete_test", AfterWrite(Self, delete_test(Self, test_id), outcome))
    /\ UNCHANGED clock

AddQuestionToTestW(test_id, q, outcome) ==
    /\ Return("add_question_to_test",
              AfterWrite(Self, add_question_to_test(Self, test_id, q[1], q[2], q[3]), outcome))
    /\ UNCHANGED clock

DeleteQuestionW(test_id, question_id, outcome) ==
    /\ Return("delete_question",
              AfterWrite(Self, delete_question(Self, test_id, question_id), outcome))
    /\ UNCHANGED clock

CreateAttemptW(student_id, test_id, outcome) ==
    /\ Return("create_attempt",
              AfterWrite(Self, create_attempt(Self, student_id, test_id, Now), outcome))
    /\ clock' = IF ret'.ok THEN Now ELSE clock

\* the file becomes unreadable from a stage of load_data on
Damage(stage) ==
    /\ disk.exists
    /\ BadAt(disk) = "none"
    /\ Return("damage", Result([Self EXCEPT !.disk = Broken(disk, stage)], TRUE, 0, FALSE))
    /\ UNCHANGED clock

\* the file is removed
RemoveFile ==
    /\ disk.exists
    /\ Return("remove_file", Result([Self EXCEPT !.disk = NoFile], TRUE, 0, FALSE))
    /\ UNCHANGED clock

NextFaults ==
    \/ \E outcome \in WriteOutcomes : AddStudentW(outcome)
    \/ \E outcome \in WriteOutcomes : AddTestW(outcome)
    \/ \E test_id \in TestIds, outcome \in WriteOutcomes : DeleteTestW(test_id, outcome)
    \/ \E test_id \in TestIds, q \in NewQuestions, outcome \in WriteOutcomes :
          AddQuestionToTestW(test_id, q, outcome)
    \/ \E test_id \in TestIds, outcome \in WriteOutcomes :
          \E question_id \in QuestionIdsOf(test_id) :
              DeleteQuestionW(test_id, question_id, outcome)
    \/ \E student_id \in StudentIds, test_id \in TestIds, outcome \in WriteOutcomes :
          CreateAttemptW(student_id, test_id, outcome)
    \/ \E stage \in LoadStages : Damage(stage)
    \/ RemoveFile
    \/ Restart

SpecFaults == Init /\ [][NextFaults]_vars

(***************************************************************************)
(* The cafe in operation.  The Cafe methods as CafeApp's handlers call     *)
(* them, and the Order methods on the order at position i of self.orders   *)
(* (none of which saves), from a first run of the program, or from a run   *)
(* in which client 1 was registered and ordered two of dish 1 and one of   *)
(* dish 3, with or without one more of dish 1 under a comment.             *)
(***************************************************************************)
MaxCafeSteps == 3

CafeReturn(op, r) ==
    /\ steps < MaxCafeSteps
    /\ steps' = steps + 1
    /\ \E done \in {r} :
          /\ CafeCommit(done.self)
          /\ ret' = Returned(op, done)
    /\ UNCHANGED <<students, tests, attempts, next_student_id, next_test_id,
                   next_attempt_id, next_question_id, disk>>

\* self with its order at position i replaced
WithOrder(self, i, order) == [self EXCEPT !.orders[i] = order]

\* order.add_dish(self.find_dish(dish_num), count, comment) on order i
AddedTo(self, i, dish_num, count, comment) ==
    WithOrder(self, i, Order_add_dish(self.orders[i], self.dishes[find_dish(self, dish_num)],
                                      count, comment).order)

FreshCafe == Cafe(NoFile)
Registered == new_client(FreshCafe, "555").self
Opened == create_order(Registered, 1, 1).self
Served == save(AddedTo(AddedTo(Opened, 1, 1, 2, ""), 1, 3, 1, ""))
ServedTwice == save(AddedTo(Served, 1, 1, 1, "hot"))

CafeRuns == {FreshCafe, Served, ServedTwice}

InitCafe ==
    /\ \E run \in CafeRuns : CafeHolds(run)
    /\ Holds(TestingSystem_init(NoFile))
    /\ clock = 1
    /\ steps = 0
    /\ ret = [op |-> "Cafe", ok |-> TRUE, id |-> 0, warn |-> FALSE, arg |-> <<>>]

\* inputs
Costs == {150}
Phones == {"555", "777"}
\* the nums given out so far, and the next one, which no dish has yet
DishNums == 1..cafe.next_dish_num
\* what the list of the menu offers
ListedDishes == {cafe.dishes[k].num : k \in 1..Len(cafe.dishes)}
\* a count with a comment
Portions == {<<1, "">>, <<2, "hot">>}
\* the nums of the dishes on the lines of order i, and one of no line
LineNums(i) ==
    {cafe.orders[i].lines[k].dish.num : k \in 1..Len(cafe.orders[i].lines)}
    \cup {cafe.next_dish_num}
NewCounts == {0, 3}
NewStates == {"COOKING", "DONE"}

NewDish(cost) ==
    /\ CafeReturn("new_dish", new_dish(CafeSelf, cost))
    /\ UNCHANGED clock

\* CafeApp.change_status
change_status(self, dish_num) ==
    LET dish == find_dish(self, dish_num)
    IN  IF dish # 0
        THEN Result(save([self EXCEPT !.dishes[dish] = Dish_switch_active(@)]),
                    TRUE, dish_num, FALSE)
        ELSE Result(self, FALSE, 0, FALSE)

ChangeStatus(dish_num) ==
    /\ CafeReturn("change_status", change_status(CafeSelf, dish_num))
    /\ UNCHANGED clock

DeleteDish(dish_num) ==
    /\ CafeReturn("delete_dish", delete_dish(CafeSelf, dish_num))
    /\ UNCHANGED clock

NewClient(phone_num) ==
    /\ CafeReturn("new_client", new_client(CafeSelf, phone_num))
    /\ UNCHANGED clock

CreateOrder(client) ==
    /\ CafeReturn("create_order", create_order(CafeSelf, client, Now))
    /\ clock' = Now

\* an Order method was called on order i and left it as order
OrderCalled(op, i, order, ok) ==
    CafeReturn(op, Result(WithOrder(CafeSelf, i, order), ok, cafe.orders[i].order_num, FALSE))

\* add_dish with a dish of the menu; ok is false when ValueError was raised
AddDish(i, dish_num, count, comment) ==
    /\ \E added \in {Order_add_dish(cafe.orders[i],
                                    cafe.dishes[find_dish(CafeSelf, dish_num)],
                                    count, comment)} :
          OrderCalled("add_dish", i, added.order, ~added.raised)
    /\ UNCHANGED clock

RemoveDish(i, dish_num) ==
    /\ OrderCalled("remove_dish", i, Order_remove_dish(cafe.orders[i], dish_num), TRUE)
    /\ UNCHANGED clock

ChangeCount(i, dish_num, new_count) ==
    /\ OrderCalled("change_count", i,
                   Order_change_count(cafe.orders[i], dish_num, new_count), TRUE)
    /\ UNCHANGED clock

SetState(i, new_state) ==
    /\ OrderCalled("set_state", i, Order_set_state(cafe.orders[i], new_state), TRUE)
    /\ UNCHANGED clock

SetPayState(i, new_pay_state) ==
    /\ OrderCalled("set_pay_state", i,
                   Order_set_pay_state(cafe.orders[i], new_pay_state), TRUE)
    /\ UNCHANGED clock

Save ==
    /\ CafeReturn("save", Result(save(CafeSelf), TRUE, 0, FALSE))
    /\ UNCHANGED clock

\* the process ends and a new one constructs Cafe from the file
CafeRestart ==
    /\ CafeReturn("Cafe", Result(Cafe(cafe_data), TRUE, 0, FALSE))
    /\ UNCHANGED clock

NextCafe ==
    \/ \E cost \in Costs : NewDish(cost)
    \/ \E dish_num \in ListedDishes : ChangeStatus(dish_num)
    \/ \E dish_num \in DishNums : DeleteDish(dish_num)
    \/ \E phone_num \in Phones : NewClient(phone_num)
    \/ \E client \in 1..Len(cafe.clients) : CreateOrder(client)
    \/ \E i \in 1..Len(cafe.orders), portion \in Portions :
          \E dish_num \in ListedDishes : AddDish(i, dish_num, portion[1], portion[2])
    \/ \E i \in 1..Len(cafe.orders) : \E dish_num \in LineNums(i) : RemoveDish(i, dish_num)
    \/ \E i \in 1..Len(cafe.orders), new_count \in NewCounts :
          \E dish_num \in LineNums(i) : ChangeCount(i, dish_num, new_count)
    \/ \E i \in 1..Len(cafe.orders), new_state \in NewStates : SetState(i, new_state)
    \/ \E i \in 1..Len(cafe.orders) : SetPayState(i, "PAID")
    \/ Save
    \/ CafeRestart

SpecCafe == InitCafe /\ [][NextCafe]_vars

(***************************************************************************)
(* Claims.                                                                 *)
(***************************************************************************)
\* the attempts of the list that reference this student and this test
AttemptsOf(list, student_id, test_id) ==
    {i \in 1..Len(list) : list[i].student = student_id /\ list[i].test = test_id}

HasStudent(student_id) == \E i \in 1..Len(students) : students[i].student_id = student_id
HasTest(test_id) == \E i \in 1..Len(tests) : tests[i].test_id = test_id

Counters == <<next_student_id, next_test_id, next_attempt_id, next_question_id>>

\* C1: create_attempt for an existing student and test appends one attempt of
\* that pair and returns it while the pair has fewer than 3 attempts, returns
\* None and creates nothing once the pair has 3 or more; and no pair ever has
\* more than 3 attempts.
C1_AttemptCap ==
    /\ [](\A i \in 1..Len(attempts) :
             Cardinality(AttemptsOf(attempts, attempts[i].student, attempts[i].test)) <= 3)
    /\ [][\A student_id \in StudentIds, test_id \in TestIds :
             (/\ ret'.op = "create_attempt"
              /\ HasStudent(student_id) /\ HasTest(test_id)
              /\ CreateAttempt(student_id, test_id)) =>
                 IF Cardinality(AttemptsOf(attempts, student_id, test_id)) < 3
                 THEN /\ ret'.ok
                      /\ Len(attempts') = Len(attempts) + 1
                      /\ SubSeq(attempts', 1, Len(attempts)) = attempts
                      /\ attempts'[Len(attempts')].student = student_id
                      /\ attempts'[Len(attempts')].test = test_id
                      /\ attempts'[Len(attempts')].attempt_id = ret'.id
                 ELSE /\ ~ret'.ok
                      /\ attempts' = attempts
                      /\ students' = students]_vars

\* a fourth create_attempt of a pair that has three attempts was refused
C1_Witness ==
    /\ ret.op = "create_attempt" /\ ~ret.ok /\ ret.warn
    /\ Cardinality(AttemptsOf(attempts, 1, 1)) = 3

\* C2: delete_test of a test that some attempt references, whatever the
\* attempt's status, returns False and leaves tests, attempts and the four
\* counters as they were; of a test in the list that no attempt references,
\* it removes that test and no other and returns True.
C2_DeleteTestGuard ==
    [][\A test_id \in TestIds :
          (ret'.op = "delete_test" /\ DeleteTest(test_id)) =>
              IF \E i \in 1..Len(attempts) : attempts[i].test = test_id
              THEN /\ ~ret'.ok
                   /\ tests' = tests
                   /\ attempts' = attempts
                   /\ Counters' = Counters
              ELSE HasTest(test_id) =>
                   /\ ret'.ok
                   /\ Len(tests') = Len(tests) - 1
                   /\ tests' = SelectSeq(tests, LAMBDA t : t.test_id # test_id)
                   /\ attempts' = attempts
                   /\ students' = students
                   /\ Counters' = Counters]_vars

\* the deletion of a test was refused because of an attempt that is already graded
C2_Witness ==
    /\ ret.op = "delete_test" /\ ~ret.ok /\ ret.warn
    /\ \E i \in 1..Len(attempts) : attempts[i].test = 1 /\ attempts[i].status = "EVALUATED"
    /\ HasTest(1)

StatusRank(status) ==
    CASE status = "NOT_STARTED" -> 0
      [] status = "IN_PROGRESS" -> 1
      [] status = "COMPLETED" -> 2
      [] status = "EVALUATED" -> 3

AttemptMethods == {"start_attempt", "submit_answer", "finish_attempt", "evaluate_attempt"}

\* C3: a call of start_attempt, submit_answer, finish_attempt or
\* evaluate_attempt never moves the status of an attempt to an earlier one in
\* the order NOT_STARTED < IN_PROGRESS < COMPLETED < EVALUATED.
C3_StatusForward ==
    [][ret'.op \in AttemptMethods =>
          \A i \in 1..Len(attempts) :
              StatusRank(attempts'[i].status) >= StatusRank(attempts[i].status)]_vars

\* the sum of f over the set S
RECURSIVE SumOver(_, _)
SumOver(S, f) ==
    IF S = {} THEN 0
    ELSE LET x == CHOOSE y \in S : TRUE IN f[x] + SumOver(S \ {x}, f)

\* the test of the list that an attempt refers to
TestIn(list, attempt) == list[CHOOSE k \in 1..Len(list) : list[k].test_id = attempt.test]

\* the points of the questions of a test that are switched on
ActivePoints(test) ==
    SumOver({k \in 1..Len(test.questions) : test.questions[k].is_active},
            [k \in 1..Len(test.questions) |-> test.questions[k].max_points])

RecordedPoints(attempt) == SumOver(DOMAIN attempt.scores, attempt.scores)

\* the step is a finish_attempt or evaluate_attempt call on attempt i
Graded(i) ==
    /\ ret'.op \in {"finish_attempt", "evaluate_attempt"}
    /\ steps' = steps + 1
    /\ i \in 1..Len(attempts)
    /\ ret'.id = attempts[i].attempt_id

\* C4: right after finish_attempt or evaluate_attempt, final_score is the sum
\* of the scores then recorded, and percentage is final_score / max * 100 for
\* the maximum score of the test at that moment, or 0 when that maximum is 0.
C4_ScoreRecomputed ==
    [][\A i \in 1..Len(attempts) :
          Graded(i) =>
              LET a == attempts'[i]
                  max == ActivePoints(TestIn(tests', a))
              IN  /\ a.final_score = RecordedPoints(a)
                  /\ IF max = 0
                     THEN a.percentage.num = 0
                     ELSE a.percentage.num * max = a.final_score * 100 * a.percentage.den]_vars

\* an attempt with points recorded was finished on a test whose questions are
\* all switched off
C4_Witness ==
    \E i \in 1..Len(attempts) :
        /\ attempts[i].status = "COMPLETED"
        /\ attempts[i].final_score > 0
        /\ ActivePoints(TestIn(tests, attempts[i])) = 0
        /\ attempts[i].percentage.num = 0

\* C5: right after finish_attempt or evaluate_attempt, is_passed is true iff
\* percentage >= the passing score of the test, that is iff
\* final_score * 100 >= passing_score * max when max > 0, and iff
\* 0 >= passing_score when max is 0.
C5_PassFlag ==
    [][\A i \in 1..Len(attempts) :
          Graded(i) =>
              LET a == attempts'[i]
                  t == TestIn(tests', a)
                  max == ActivePoints(t)
              IN  /\ a.is_passed <=> (a.percentage.num >= t.passing_score * a.percentage.den)
                  /\ a.is_passed <=> IF max > 0
                                     THEN a.final_score * 100 >= t.passing_score * max
                                     ELSE 0 >= t.passing_score]_vars

\* with a maximum of 9 and the threshold 60, a total of 5 did not pass
C5_Witness ==
    \E i \in 1..Len(attempts) :
        /\ attempts[i].status = "EVALUATED"
        /\ ActivePoints(TestIn(tests, attempts[i])) = 9
        /\ TestIn(tests, attempts[i]).passing_score = 60
        /\ attempts[i].final_score = 5
        /\ ~attempts[i].is_passed

\* C6: submit_answer(question_id, answers) records the answers under
\* question_id and keeps the other answers; for a single-choice or
\* multiple-choice question of the test it sets that question's score to
\* max_points when check_answer(answers) holds and to 0 otherwise, keeping the
\* other scores; for a text question, or an id of no question of the test, it
\* leaves the scores as they were.
C6_SubmitAnswer ==
    [][\A i \in 1..Len(attempts), answers \in GradingSubmissions :
          \A question_id \in QuestionIdsOf(attempts[i].test) :
              (ret'.op = "submit_answer" /\ SubmitAnswer(i, question_id, answers)) =>
                  LET before == attempts[i]
                      after == attempts'[i]
                      key == IntKey(question_id)
                      qs == TestIn(tests, before).questions
                      hit == {k \in 1..Len(qs) : qs[k].question_id = question_id}
                  IN  /\ DOMAIN after.answers = DOMAIN before.answers \cup {key}
                      /\ after.answers[key] = answers
                      /\ \A x \in DOMAIN before.answers \ {key} :
                             after.answers[x] = before.answers[x]
                      /\ IF \E k \in hit : qs[k].question_type # "TEXT_ANSWER"
                         THEN /\ DOMAIN after.scores = DOMAIN before.scores \cup {key}
                              /\ \A k \in hit :
                                     after.scores[key] =
                                         IF check_answer(qs[k], answers)
                                         THEN qs[k].max_points ELSE 0
                              /\ \A x \in DOMAIN before.scores \ {key} :
                                     after.scores[x] = before.scores[x]
                         ELSE after.scores = before.scores]_vars

\* the 6-point question answered "6" has its 6 points, and the text question
\* has an answer recorded and no score
C6_Witness ==
    \E i \in 1..Len(attempts) :
        /\ ret.op = "submit_answer"
        /\ IntKey(6) \in DOMAIN attempts[i].scores
        /\ attempts[i].answers[IntKey(6)] = <<"6">>
        /\ attempts[i].scores[IntKey(6)] = 6
        /\ IntKey(7) \in DOMAIN attempts[i].answers
        /\ IntKey(7) \notin DOMAIN attempts[i].scores

\* every element of the list a is an element of the list b
EachIn(a, b) == \A x \in 1..Len(a) : \E y \in 1..Len(b) : a[x] = b[y]

\* C7: check_answer (whose argument and answer ret holds) changes nothing and
\* answers, for a single-choice question,
\* whether the submission is non-empty and its first element is one of the
\* correct answers; for a multiple-choice question, whether the submission and
\* the correct answers hold the same elements, order and repetition aside;
\* for a text question, always yes.
C7_CheckAnswer ==
    [][ret'.op = "check_answer" =>
          /\ \A i \in 1..Len(tests) : \A j \in 1..Len(tests[i].questions) :
                 tests[i].questions[j].question_id = ret'.id =>
                     LET question == tests[i].questions[j]
                         correct == question.correct_answers
                         user_answers == ret'.arg
                     IN  ret'.ok <=>
                             CASE question.question_type = "SINGLE_CHOICE" ->
                                      /\ Len(user_answers) > 0
                                      /\ \E y \in 1..Len(correct) : correct[y] = user_answers[1]
                               [] question.question_type = "MULTIPLE_CHOICE" ->
                                      EachIn(user_answers, correct) /\ EachIn(correct, user_answers)
                               [] question.question_type = "TEXT_ANSWER" -> TRUE
          /\ UNCHANGED <<students, tests, attempts, disk, next_student_id,
                         next_test_id, next_attempt_id, next_question_id>>]_vars

\* a multiple-choice question with the correct answers 2 and 7 accepted the
\* submission 7, 2, 7
C7_Witness ==
    /\ ret.op = "check_answer"
    /\ ret.ok
    /\ ret.arg = <<"7", "2", "7">>
    /\ \E i \in 1..Len(tests) : \E j \in 1..Len(tests[i].questions) :
          /\ tests[i].questions[j].question_id = ret.id
          /\ tests[i].questions[j].question_type = "MULTIPLE_CHOICE"
          /\ tests[i].questions[j].correct_answers = <<"2", "7">>

\* C8: what save_data writes, read by a new TestingSystem, gives the students,
\* tests, questions, the four counters and every attempt back as they are in
\* memory, the answer and score maps with the same question-id keys.
C8_RoundTrip ==
    \A reloaded \in {TestingSystem(save_data(Self).disk)} :
        /\ reloaded.students = students
        /\ reloaded.tests = tests
        /\ reloaded.attempts = attempts
        /\ reloaded.next_student_id = next_student_id
        /\ reloaded.next_test_id = next_test_id
        /\ reloaded.next_attempt_id = next_attempt_id
        /\ reloaded.next_question_id = next_question_id

StudentIdsUsed(list) == {list[i].student_id : i \in 1..Len(list)}
TestIdsUsed(list) == {list[i].test_id : i \in 1..Len(list)}
AttemptIdsUsed(list) == {list[i].attempt_id : i \in 1..Len(list)}
QuestionIdsUsed(list) ==
    UNION {{list[i].questions[j].question_id : j \in 1..Len(list[i].questions)} :
              i \in 1..Len(list)}
QuestionCount(list) == SumOver(1..Len(list), [i \in 1..Len(list) |-> Len(list[i].questions)])

\* C9: the ids of the students are pairwise distinct and below
\* next_student_id, and so for tests, attempts and (over all tests) questions;
\* no counter ever decreases, and an id that appears is at least the counter
\* before the step, so that the id of a deleted entity is not issued again.
C9_UniqueIds ==
    /\ [](/\ Cardinality(StudentIdsUsed(students)) = Len(students)
          /\ Cardinality(TestIdsUsed(tests)) = Len(tests)
          /\ Cardinality(AttemptIdsUsed(attempts)) = Len(attempts)
          /\ Cardinality(QuestionIdsUsed(tests)) = QuestionCount(tests)
          /\ \A id \in StudentIdsUsed(students) : id < next_student_id
          /\ \A id \in TestIdsUsed(tests) : id < next_test_id
          /\ \A id \in AttemptIdsUsed(attempts) : id < next_attempt_id
          /\ \A id \in QuestionIdsUsed(tests) : id < next_question_id)
    /\ [][/\ next_student_id' >= next_student_id
          /\ next_test_id' >= next_test_id
          /\ next_attempt_id' >= next_attempt_id
          /\ next_question_id' >= next_question_id
          /\ \A id \in StudentIdsUsed(students') \ StudentIdsUsed(students) :
                 id >= next_student_id
          /\ \A id \in TestIdsUsed(tests') \ TestIdsUsed(tests) : id >= next_test_id
          /\ \A id \in AttemptIdsUsed(attempts') \ AttemptIdsUsed(attempts) :
                 id >= next_attempt_id
          /\ \A id \in QuestionIdsUsed(tests') \ QuestionIdsUsed(tests) :
                 id >= next_question_id]_vars

\* question 5 was deleted and the question added afterwards is question 6
C9_Witness ==
    /\ ret.op = "add_question_to_test"
    /\ ret.id = 6
    /\ 5 \notin QuestionIdsUsed(tests)
    /\ 6 \in QuestionIdsUsed(tests)
    /\ next_question_id = 7

\* the stored result of an attempt
StoredResult(attempt) == <<attempt.final_score, attempt.percentage, attempt.is_passed>>

\* C10: adding a question to a test, deleting one and switching one on or off
\* leave the final score, percentage and pass flag of every attempt as they
\* are; the new maximum score shows in an attempt only at a finish_attempt or
\* evaluate_attempt made afterwards.
C10_StoredResults ==
    [][/\ (/\ ret'.op \in {"add_question_to_test", "delete_question", "toggle_question_status"}
           /\ steps' = steps + 1)
          => /\ Len(attempts') = Len(attempts)
             /\ \A i \in 1..Len(attempts) :
                    StoredResult(attempts'[i]) = StoredResult(attempts[i])
       /\ \A i \in 1..Len(attempts) :
              Graded(i) =>
                  LET a == attempts'[i]
                      max == ActivePoints(TestIn(tests', a))
                  IN  max > 0 => a.percentage.num * max = a.final_score * 100 * a.percentage.den]_vars

\* a question of the test was switched and an evaluated attempt on it still
\* holds a percentage that the test's present maximum no longer gives
C10_Witness ==
    /\ ret.op = "toggle_question_status"
    /\ ret.ok
    /\ \E i \in 1..Len(attempts) :
          LET max == ActivePoints(TestIn(tests, attempts[i]))
          IN  /\ attempts[i].status = "EVALUATED"
              /\ max > 0
              /\ attempts[i].percentage.num * max
                     # attempts[i].final_score * 100 * attempts[i].percentage.den

\* the operations the claims call mutating
MutatingOps ==
    {"add_student", "add_test", "add_question_to_test", "delete_test", "delete_question",
     "create_attempt", "start_attempt", "submit_answer", "finish_attempt", "evaluate_attempt"}

\* C11: when a mutating operation (add_student, add_test, add_question_to_test,
\* delete_test, delete_question, create_attempt, start_attempt, submit_answer,
\* finish_attempt, evaluate_attempt) has returned, the file holds what
\* save_data writes for the registry as it then is in memory (no write fails
\* in this specification).
C11_SnapshotCurrent ==
    [][(ret'.op \in MutatingOps /\ steps' = steps + 1) => disk' = (save_data(Self).disk)']_vars

\* C12: create_attempt with a student id or a test id of no entity returns
\* None and leaves the attempts, every student's attempt list, the attempt
\* counter and the file as they were.
C12_UnresolvedIds ==
    [][\A student_id \in StudentIds, test_id \in TestIds :
          (/\ ret'.op = "create_attempt"
           /\ ~(HasStudent(student_id) /\ HasTest(test_id))
           /\ CreateAttempt(student_id, test_id))
          => /\ ~ret'.ok
             /\ attempts' = attempts
             /\ students' = students
             /\ next_attempt_id' = next_attempt_id
             /\ disk' = disk]_vars

\* create_attempt returned None without the warning of the cap, while the
\* registry holds an attempt
C12_Witness ==
    /\ ret.op = "create_attempt"
    /\ ~ret.ok
    /\ ~ret.warn
    /\ attempts # <<>>

\* the ids of the attempts of the list that reference the student, in order
AttemptIdsOfStudent(list, student_id) ==
    LET mine == SelectSeq(list, LAMBDA a : a.student = student_id)
    IN  [k \in 1..Len(mine) |-> mine[k].attempt_id]

\* C13: each student's attempt list is the subsequence of the registry's
\* attempt list made of the attempts referencing that student, in the same
\* order, after a reload too; an attempt just created is the last element of
\* the registry's list and of its student's list.
C13_AttemptLists ==
    /\ [](\A s \in 1..Len(students) :
              students[s].test_attempts = AttemptIdsOfStudent(attempts, students[s].student_id))
    /\ [][(ret'.op = "create_attempt" /\ ret'.ok /\ steps' = steps + 1) =>
              /\ Len(attempts') = Len(attempts) + 1
              /\ attempts'[Len(attempts')].attempt_id = ret'.id
              /\ \A s \in 1..Len(students') :
                     students'[s].student_id = attempts'[Len(attempts')].student =>
                         /\ students'[s].test_attempts # <<>>
                         /\ students'[s].test_attempts[Len(students'[s].test_attempts)] = ret'.id]_vars

\* after a reload, student 1 holds attempts 1 and 3 and student 2 attempt 2
C13_Witness ==
    /\ ret.op = "init"
    /\ steps > 0
    /\ Len(attempts) = 3
    /\ students[1].test_attempts = <<1, 3>>
    /\ students[2].test_attempts = <<2>>

\* the question ids that the score map has an entry for
ScoredIds(scores) == {k[2] : k \in DOMAIN scores}

\* the score recorded for a question id
ScoreOf(scores, n) == IF IntKey(n) \in DOMAIN scores THEN scores[IntKey(n)] ELSE scores[StrKey(n)]

\* C16: evaluate_attempt(manual_scores) on an attempt that is COMPLETED or
\* EVALUATED leaves it EVALUATED, and final_score becomes the sum, over the
\* question ids scored before or named in manual_scores, of the manual score
\* where one is given and of the score held before otherwise (one score for
\* each question id); percentage and pass flag follow from that total.
C16_ManualMerge ==
    [][\A i \in 1..Len(attempts) : \A manual_scores \in ManualScores(i) :
          (/\ ret'.op = "evaluate_attempt"
           /\ attempts[i].status \in {"COMPLETED", "EVALUATED"}
           /\ EvaluateAttempt(i, manual_scores))
          => LET before == attempts[i].scores
                 a == attempts'[i]
                 ids == ScoredIds(before) \cup ScoredIds(manual_scores)
                 merged == [n \in ids |-> IF n \in ScoredIds(manual_scores)
                                          THEN ScoreOf(manual_scores, n)
                                          ELSE ScoreOf(before, n)]
                 max == ActivePoints(TestIn(tests', a))
             IN  /\ a.status = "EVALUATED"
                 /\ \A n \in ids : ScoreOf(a.scores, n) = merged[n]
                 /\ a.final_score = SumOver(ids, merged)
                 /\ max > 0 => /\ a.percentage.num * max = a.final_score * 100 * a.percentage.den
                               /\ a.is_passed <=>
                                      a.final_score * 100 >= TestIn(tests', a).passing_score * max]_vars

\* C19: delete_question on a test that exists returns True though attempts
\* hold answers or scores for the question, takes that question and nothing
\* else out of the test's list, and leaves every attempt as it was.
C19_DeleteQuestion ==
    [][\A test_id \in TestIds : \A question_id \in QuestionIdsOf(test_id) :
          (/\ ret'.op = "delete_question"
           /\ HasTest(test_id)
           /\ DeleteQuestion(test_id, question_id))
          => /\ ret'.ok
             /\ attempts' = attempts
             /\ students' = students
             /\ Len(tests') = Len(tests)
             /\ \A t \in 1..Len(tests) :
                    IF tests[t].test_id = test_id
                    THEN tests'[t] =
                             [tests[t] EXCEPT !.questions =
                                 SelectSeq(@, LAMBDA q : q.question_id # question_id)]
                    ELSE tests'[t] = tests[t]]_vars

\* question 1 is gone from test 1 and an attempt on test 1 still holds its
\* answer and its score
C19_Witness ==
    /\ ret.op = "delete_question"
    /\ ret.ok
    /\ 1 \notin QuestionIdsUsed(tests)
    /\ \E i \in 1..Len(attempts) :
          /\ attempts[i].test = 1
          /\ 1 \in ScoredIds(attempts[i].scores)
          /\ 1 \in ScoredIds(attempts[i].answers)

\* C20: create_attempt for a test whose is_active flag is False adds no
\* attempt and keeps the attempts recorded.
C20_InactiveTest ==
    [][\A student_id \in StudentIds, test_id \in TestIds :
          (/\ ret'.op = "create_attempt"
           /\ \E t \in 1..Len(tests) : tests[t].test_id = test_id /\ ~tests[t].is_active
           /\ CreateAttempt(student_id, test_id))
          => attempts' = attempts]_vars

\* the file cannot be loaded: it is missing, or unreadable from some stage on
LoadFails(file) == ~file.exists \/ BadAt(file) # "none"

\* C17: when load_data fails (no file, or content that is rejected at any
\* stage), the registry then holds the demonstration data and nothing else:
\* students 1, 2, 3, tests 1 and 2 with 3 and 2 questions, the question ids
\* distinct, and no attempts.
C17_LoadFallback ==
    [][(ret'.op = "init" /\ steps' = steps + 1 /\ LoadFails(disk)) =>
          /\ Len(students') = 3
          /\ StudentIdsUsed(students') = {1, 2, 3}
          /\ Len(tests') = 2
          /\ TestIdsUsed(tests') = {1, 2}
          /\ Len(tests'[1].questions) = 3
          /\ Len(tests'[2].questions) = 2
          /\ Cardinality(QuestionIdsUsed(tests')) = 5
          /\ attempts' = <<>>]_vars

\* the step is this operation with a write that was refused, and r is what
\* the operation yields when the write succeeds: the value returned and the
\* registry in memory are those of r, and the file is as it was
Kept(r) ==
    \E done \in {r} :
        /\ ret'.ok = done.ok
        /\ ret'.id = done.id
        /\ students' = done.self.students
        /\ tests' = done.self.tests
        /\ attempts' = done.self.attempts
        /\ next_student_id' = done.self.next_student_id
        /\ next_test_id' = done.self.next_test_id
        /\ next_attempt_id' = done.self.next_attempt_id
        /\ next_question_id' = done.self.next_question_id
        /\ disk' = disk

\* C18: a registry operation whose write fails returns what it returns
\* otherwise and leaves the registry in memory as it leaves it otherwise;
\* only the file stays behind.
C18_WriteFailure ==
    [][/\ (ret'.op = "add_student" /\ AddStudentW("refused")) => Kept(add_student(Self))
       /\ (ret'.op = "add_test" /\ AddTestW("refused")) => Kept(add_test(Self))
       /\ \A test_id \in TestIds :
              (ret'.op = "delete_test" /\ DeleteTestW(test_id, "refused"))
              => Kept(delete_test(Self, test_id))
       /\ \A test_id \in TestIds, q \in NewQuestions :
              (ret'.op = "add_question_to_test" /\ AddQuestionToTestW(test_id, q, "refused"))
              => Kept(add_question_to_test(Self, test_id, q[1], q[2], q[3]))
       /\ \A test_id \in TestIds : \A question_id \in QuestionIdsOf(test_id) :
              (ret'.op = "delete_question" /\ DeleteQuestionW(test_id, question_id, "refused"))
              => Kept(delete_question(Self, test_id, question_id))
       /\ \A student_id \in StudentIds, test_id \in TestIds :
              (ret'.op = "create_attempt" /\ CreateAttemptW(student_id, test_id, "refused"))
              => Kept(create_attempt(Self, student_id, test_id, Now))]_vars

\* test 3 was added and then given a question, both in memory only: the file
\* still holds two tests
C18_Witness ==
    /\ ret.op = "add_question_to_test"
    /\ ret.ok
    /\ Len(tests) = 3
    /\ tests[3].questions # <<>>
    /\ disk.exists
    /\ BadAt(disk) = "none"
    /\ Len(disk.data.tests) = 2

\* the positions of the EVALUATED attempts among a set of positions
EvaluatedIn(S) == {i \in S : attempts[i].status = "EVALUATED"}

\* the product of the denominators of the percentages of the attempts at E
RECURSIVE DenProduct(_)
DenProduct(E) ==
    IF E = {} THEN 1
    ELSE LET i == CHOOSE x \in E : TRUE IN attempts[i].percentage.den * DenProduct(E \ {i})

\* the sum of the percentages of the attempts at E, times DenProduct(E)
PercentSum(E) ==
    SumOver(E, [i \in E |-> attempts[i].percentage.num
                            * (DenProduct(E) \div attempts[i].percentage.den)])

\* the minutes between start and end of the attempt at i, 0 without an end
DurationAt(i) ==
    IF attempts[i].end_time = None THEN 0 ELSE attempts[i].end_time - attempts[i].start_time

\* C14: get_test_statistics(test_id) returns None iff no attempt on the test
\* is EVALUATED; otherwise total_attempts is the number of EVALUATED attempts
\* on the test, passed_attempts the number of those that passed (at most
\* total_attempts), success_rate is passed / total * 100, and avg_score and
\* avg_time are the sums of percentage and duration over exactly those
\* attempts, divided by their number.
C14_TestStatistics ==
    [][ret'.op = "get_test_statistics" =>
          LET E == EvaluatedIn({i \in 1..Len(attempts) : attempts[i].test = ret'.id})
              n == Cardinality(E)
              passed == Cardinality({i \in E : attempts[i].is_passed})
              r == ret'.arg
          IN  /\ attempts' = attempts
              /\ ret'.ok <=> E # {}
              /\ E = {} => r = <<>>
              /\ E # {} =>
                     /\ Len(r) = 8
                     /\ r[1] = n
                     /\ r[2] = passed
                     /\ r[2] <= r[1]
                     /\ r[4] > 0 /\ r[6] > 0 /\ r[8] > 0
                     /\ r[3] * n = passed * 100 * r[4]
                     /\ r[5] * DenProduct(E) * n = PercentSum(E) * r[6]
                     /\ r[7] * n = SumOver(E, [i \in E |-> DurationAt(i)]) * r[8]]_vars

\* statistics of test 1 over its five evaluated attempts, two of them passed,
\* 32 percent on average, while a sixth attempt on the test is not evaluated
C14_Witness ==
    /\ ret.op = "get_test_statistics"
    /\ ret.ok
    /\ ret.id = 1
    /\ ret.arg[1] = 5
    /\ ret.arg[2] = 2
    /\ ret.arg[5] = 32
    /\ ret.arg[6] = 1
    /\ \E i \in 1..Len(attempts) : attempts[i].test = 1 /\ attempts[i].status # "EVALUATED"

\* the positions of the EVALUATED attempts that reference the student at s
EvaluatedOf(s) ==
    EvaluatedIn({i \in 1..Len(attempts) : attempts[i].student = students[s].student_id})

\* the students with an EVALUATED attempt, as positions in the registry
Qualified == {s \in 1..Len(students) : EvaluatedOf(s) # {}}

\* the mean percentage of s is greater than that of t
MeanGreater(s, t) ==
    PercentSum(EvaluatedOf(s)) * DenProduct(EvaluatedOf(t)) * Cardinality(EvaluatedOf(t))
        > PercentSum(EvaluatedOf(t)) * DenProduct(EvaluatedOf(s)) * Cardinality(EvaluatedOf(s))

\* s ranks before t: a greater mean, or the same mean and an earlier place in
\* the registry
RanksBefore(s, t) == MeanGreater(s, t) \/ (~MeanGreater(t, s) /\ s < t)

\* the position in the registry of the student with the id
PositionOf(student_id) == CHOOSE s \in 1..Len(students) : students[s].student_id = student_id

\* the list holds ids of qualified students, none twice, each ranking before
\* the next
Ranked(r) ==
    /\ \A k \in 1..Len(r) : \E s \in Qualified : students[s].student_id = r[k]
    /\ \A k, l \in 1..Len(r) : k # l => r[k] # r[l]
    /\ \A k \in 1..(Len(r) - 1) : RanksBefore(PositionOf(r[k]), PositionOf(r[k + 1]))

\* C15 as stated: the ranking of generate_statistics holds every student with
\* an EVALUATED attempt and no other, by mean percentage over the student's
\* EVALUATED attempts, descending, equal means in registry order.
C15_RankingComplete ==
    [][ret'.op = "generate_statistics" =>
          /\ Ranked(ret'.arg)
          /\ Len(ret'.arg) = Cardinality(Qualified)]_vars

\* C15 amended: the ranking of generate_statistics holds the first five (all,
\* when there are at most five) of the students with an EVALUATED attempt in
\* the order by descending mean percentage over the student's EVALUATED
\* attempts, equal means in registry order; every qualified student left out
\* ranks behind the last one listed.
C15_RankingTopFive ==
    [][ret'.op = "generate_statistics" =>
          LET r == ret'.arg
          IN  /\ Ranked(r)
              /\ Len(r) = IF Cardinality(Qualified) < 5 THEN Cardinality(Qualified) ELSE 5
              /\ \A s \in Qualified :
                     (\A k \in 1..Len(r) : r[k] # students[s].student_id)
                     => RanksBefore(PositionOf(r[Len(r)]), s)]_vars

\* six students have an evaluated attempt; the ranking lists 3, 1, 6, then 2
\* before 5 on equal means, and leaves student 4 out
C15_Witness ==
    /\ ret.op = "generate_statistics"
    /\ Cardinality(Qualified) = 6
    /\ ret.arg = <<3, 1, 6, 2, 5>>

\* the questions of the attempt's test that carry the id
QuestionsWithId(list, attempt, question_id) ==
    {k \in 1..Len(TestIn(list, attempt).questions) :
        TestIn(list, attempt).questions[k].question_id = question_id}

\* the keys of a dict of an attempt that name the question id
KeysOf(dict, question_id) == {k \in DOMAIN dict : k[2] = question_id}

\* C21: a question that is switched off when the attempt is created earns no
\* points in that attempt: a submit_answer for it right after create_attempt
\* records no score above 0 for it.
C21_InactiveHidden ==
    [][\A i \in 1..Len(attempts), answers \in GradingSubmissions :
          \A question_id \in QuestionIdsOf(attempts[i].test) :
              (/\ ret.op = "create_attempt"
               /\ ret.id = attempts[i].attempt_id
               /\ \A k \in QuestionsWithId(tests, attempts[i], question_id) :
                      ~TestIn(tests, attempts[i]).questions[k].is_active
               /\ ret'.op = "submit_answer"
               /\ SubmitAnswer(i, question_id, answers))
              => \A key \in KeysOf(attempts'[i].scores, question_id) :
                     attempts'[i].scores[key] = 0]_vars

\* C23: an attempt that is EVALUATED has been finished, so its end_time is set.
C23_EvaluatedAfterCompleted ==
    \A i \in 1..Len(attempts) :
        attempts[i].status = "EVALUATED" => attempts[i].end_time # None

\* C24: an attempt that is COMPLETED or EVALUATED has final_score equal to the
\* sum of the scores it records.
C24_FinalScoreCurrent ==
    \A i \in 1..Len(attempts) :
        attempts[i].status \in {"COMPLETED", "EVALUATED"} =>
            attempts[i].final_score = RecordedPoints(attempts[i])

\* C25: after a submit_answer for a question, on an attempt that may have been
\* saved and loaded before, the answers hold exactly one entry for that question
\* and the scores at most one.
C25_SubmitOverwrites ==
    [][\A i \in 1..Len(attempts), answers \in Submissions :
          \A question_id \in QuestionIdsOf(attempts[i].test) :
              (ret'.op = "submit_answer" /\ SubmitAnswer(i, question_id, answers))
              => /\ Cardinality(KeysOf(attempts'[i].answers, question_id)) = 1
                 /\ Cardinality(KeysOf(attempts'[i].scores, question_id)) <= 1]_vars

\* the step changed the questions of exactly the test at position k
OnlyTest(k) ==
    /\ Len(tests') = Len(tests)
    /\ \A n \in 1..Len(tests) : n # k => tests'[n] = tests[n]
    /\ tests'[k].test_id = tests[k].test_id
    /\ tests'[k].is_active = tests[k].is_active

\* C22: in every state get_active_questions is the list of the questions that
\* are switched on, in the order of the list, and get_max_score is the sum of
\* their max_points.  A question added to a test is on and raises the maximum
\* by its points; a deleted question lowers it by its points when it was on; a
\* question switch raises or lowers it by the question's points; the switch of
\* a test flips the flag of that test and no question flag, so that no maximum
\* changes.
C22_MaxScore ==
    /\ [](\A k \in 1..Len(tests) :
             /\ get_active_questions(tests[k]) =
                    SelectSeq(tests[k].questions, LAMBDA q : q.is_active)
             /\ get_max_score(tests[k]) = ActivePoints(tests[k]))
    /\ [][/\ (ret'.op = "toggle_test_status" /\ steps' = steps + 1 /\ ret'.ok) =>
                /\ Len(tests') = Len(tests)
                /\ \E k \in 1..Len(tests) :
                       /\ tests'[k] = [tests[k] EXCEPT !.is_active = ~@]
                       /\ \A n \in 1..Len(tests) : n # k => tests'[n] = tests[n]
                /\ \A k \in 1..Len(tests) :
                       /\ tests'[k].questions = tests[k].questions
                       /\ get_max_score(tests'[k]) = get_max_score(tests[k])
          /\ (ret'.op = "add_question_to_test" /\ steps' = steps + 1 /\ ret'.ok) =>
                \E k \in 1..Len(tests) :
                    /\ OnlyTest(k)
                    /\ Len(tests'[k].questions) = Len(tests[k].questions) + 1
                    /\ SubSeq(tests'[k].questions, 1, Len(tests[k].questions)) = tests[k].questions
                    /\ LET question == tests'[k].questions[Len(tests'[k].questions)]
                       IN  /\ question.question_id = ret'.id
                           /\ question.is_active
                           /\ get_max_score(tests'[k]) =
                                  get_max_score(tests[k]) + question.max_points
          /\ (ret'.op = "delete_question" /\ steps' = steps + 1 /\ ret'.ok /\ tests' # tests) =>
                \E k \in 1..Len(tests) : \E j \in 1..Len(tests[k].questions) :
                    /\ OnlyTest(k)
                    /\ tests'[k].questions = RemoveAt(tests[k].questions, j)
                    /\ get_max_score(tests'[k]) =
                           get_max_score(tests[k])
                           - (IF tests[k].questions[j].is_active
                              THEN tests[k].questions[j].max_points ELSE 0)
          /\ (ret'.op = "toggle_question_status" /\ steps' = steps + 1 /\ ret'.ok) =>
                \E k \in 1..Len(tests) : \E j \in 1..Len(tests[k].questions) :
                    /\ OnlyTest(k)
                    /\ tests'[k].questions = [tests[k].questions EXCEPT ![j].is_active = ~@]
                    /\ get_max_score(tests'[k]) =
                           get_max_score(tests[k])
                           + (IF tests[k].questions[j].is_active
                              THEN 0 - tests[k].questions[j].max_points
                              ELSE tests[k].questions[j].max_points)]_vars

\* a test was switched off and its questions still count 5 points
C22_Witness ==
    /\ ret.op = "toggle_test_status"
    /\ ret.ok
    /\ \E k \in 1..Len(tests) :
          /\ ~tests[k].is_active
          /\ get_max_score(tests[k]) = 5
          /\ Len(get_active_questions(tests[k])) = 3

\* C26: find_test_by_id and find_student_by_id return None for an id that no
\* test or student of the registry has; delete_test, delete_question and
\* add_question_to_test called with such a test id return False or None and
\* leave the students, tests, attempts, the four id counters and the file as
\* they were.
C26_UnknownIds ==
    /\ [](/\ \A test_id \in TestIds :
                ~HasTest(test_id) => find_test_by_id(Self, test_id) = 0
          /\ \A student_id \in StudentIds :
                ~HasStudent(student_id) => find_student_by_id(Self, student_id) = 0)
    /\ [][\A test_id \in TestIds :
             (/\ ~HasTest(test_id)
              /\ \/ ret'.op = "delete_test" /\ DeleteTest(test_id)
                 \/ /\ ret'.op = "delete_question"
                    /\ \E question_id \in QuestionIdsOf(test_id) :
                           DeleteQuestion(test_id, question_id)
                 \/ /\ ret'.op = "add_question_to_test"
                    /\ \E q \in NewQuestions : AddQuestionToTest(test_id, q))
             => /\ ~ret'.ok
                /\ ~ret'.warn
                /\ UNCHANGED <<students, tests, attempts, Counters, disk>>]_vars

\* add_question_to_test returned None: the test id is the one of a deleted test
C26_Witness ==
    /\ ret.op = "add_question_to_test"
    /\ ~ret.ok
    /\ \E test_id \in 1..(next_test_id - 1) : ~HasTest(test_id)
    /\ next_question_id = 6

\* C27: every attempt of the registry references a student and a test of the
\* registry; no step removes a student or an attempt, and no step removes a
\* test that has an attempt.
C27_ReferentialIntegrity ==
    /\ [](\A i \in 1..Len(attempts) :
             /\ HasStudent(attempts[i].student)
             /\ HasTest(attempts[i].test))
    /\ [][/\ StudentIdsUsed(students) \subseteq StudentIdsUsed(students')
          /\ AttemptIdsUsed(attempts) \subseteq AttemptIdsUsed(attempts')
          /\ \A i \in 1..Len(attempts) :
                 attempts[i].test \in TestIdsUsed(tests')]_vars

\* a test was deleted while the registry holds an attempt on another test
C27_Witness ==
    /\ ret.op = "delete_test"
    /\ ret.ok
    /\ attempts # <<>>
    /\ \A i \in 1..Len(attempts) : HasTest(attempts[i].test)

\* C28: in a sitting (the test is left as it was, only questions that are
\* switched on are answered, no manual scores, no reload) an attempt that is
\* COMPLETED or EVALUATED has a final_score from 0 to the maximum score of its
\* test and a percentage from 0 to 100.
C28_ScoreBounded ==
    \A i \in 1..Len(attempts) :
        attempts[i].status \in {"COMPLETED", "EVALUATED"} =>
            /\ 0 <= attempts[i].final_score
            /\ attempts[i].final_score <= ActivePoints(TestIn(tests, attempts[i]))
            /\ 0 <= attempts[i].percentage.num
            /\ attempts[i].percentage.num <= 100 * attempts[i].percentage.den

\* an attempt was finished with every point of its test: 6 of 6, 100 percent
C28_Witness ==
    \E i \in 1..Len(attempts) :
        /\ attempts[i].status = "COMPLETED"
        /\ attempts[i].final_score = 6
        /\ ActivePoints(TestIn(tests, attempts[i])) = 6
        /\ attempts[i].percentage = Frac(100, 1)

\* cost times count, summed over the lines of the order
LinesTotal(order) ==
    SumOver(1..Len(order.lines),
            [k \in 1..Len(order.lines) |-> order.lines[k].dish.cost * order.lines[k].count])

\* the lines of the order that are not of the dish
OtherLines(order, dish_num) == SelectSeq(order.lines, LAMBDA line : line.dish.num # dish_num)

\* the positions of the lines of the dish
LinesOf(order, dish_num) ==
    {k \in 1..Len(order.lines) : order.lines[k].dish.num = dish_num}

\* the positions of the lines of the dish under the comment
LinesUnder(order, dish_num, comment) ==
    {k \in LinesOf(order, dish_num) : order.lines[k].comment = comment}

\* the total and the line sums of the order are those of its lines
Totalled(order) ==
    /\ order.total = LinesTotal(order)
    /\ \A k \in 1..Len(order.lines) :
           order.lines[k].sum = order.lines[k].dish.cost * order.lines[k].count

\* the step is a call of one of the three methods on order i
Edited(i) ==
    /\ ret'.op \in {"add_dish", "remove_dish", "change_count"}
    /\ steps' = steps + 1
    /\ ret'.id = cafe.orders[i].order_num

\* C29: an order is created with no line and a total of 0, and add_dish,
\* remove_dish and change_count keep the total equal to the sum of cost times
\* count over the lines.  add_dish of a dish that is on sale raises the count
\* of the line of that dish and comment by the count given, or appends a line
\* with that count; remove_dish takes out the lines of the dish; change_count
\* with a count above 0 sets the count of the first line of the dish, and with
\* a count of 0 or less takes the lines of the dish out.  Every other line is
\* left as it was.
C29_OrderTotal ==
    [][/\ (ret'.op = "create_order" /\ steps' = steps + 1) =>
             /\ Len(cafe'.orders) = Len(cafe.orders) + 1
             /\ cafe'.orders[Len(cafe'.orders)].lines = <<>>
             /\ Totalled(cafe'.orders[Len(cafe'.orders)])
       /\ \A i \in 1..Len(cafe.orders) :
             LET before == cafe.orders[i]
                 after == cafe'.orders[i]
             IN  /\ (Edited(i) /\ Totalled(before)) => Totalled(after)
                 /\ \A portion \in Portions : \A dish_num \in ListedDishes :
                        (/\ ret'.op = "add_dish"
                         /\ ret'.ok
                         /\ AddDish(i, dish_num, portion[1], portion[2]))
                        => LET held == LinesUnder(before, dish_num, portion[2])
                           IN  IF held = {}
                               THEN /\ Len(after.lines) = Len(before.lines) + 1
                                    /\ SubSeq(after.lines, 1, Len(before.lines)) = before.lines
                                    /\ after.lines[Len(after.lines)].dish.num = dish_num
                                    /\ after.lines[Len(after.lines)].comment = portion[2]
                                    /\ after.lines[Len(after.lines)].count = portion[1]
                               ELSE /\ Len(after.lines) = Len(before.lines)
                                    /\ \E k \in held :
                                           /\ after.lines[k].count =
                                                  before.lines[k].count + portion[1]
                                           /\ \A n \in 1..Len(before.lines) :
                                                  n # k => after.lines[n] = before.lines[n]
                 /\ \A dish_num \in LineNums(i) :
                        (ret'.op = "remove_dish" /\ RemoveDish(i, dish_num))
                        => after.lines = OtherLines(before, dish_num)
                 /\ \A dish_num \in LineNums(i), new_count \in NewCounts :
                        (ret'.op = "change_count" /\ ChangeCount(i, dish_num, new_count))
                        => IF LinesOf(before, dish_num) = {}
                           THEN after = before
                           ELSE IF new_count <= 0
                           THEN after.lines = OtherLines(before, dish_num)
                           ELSE /\ Len(after.lines) = Len(before.lines)
                                /\ \E k \in LinesOf(before, dish_num) :
                                       /\ after.lines[k].count = new_count
                                       /\ after.lines[k].comment = before.lines[k].comment
                                       /\ \A n \in 1..Len(before.lines) :
                                              n # k => after.lines[n] = before.lines[n]]_vars

\* change_count set the first line of dish 1 to 3 and left its other line, of
\* count 1, and the line of dish 3: 3 * 480 + 480 + 290
C29_Witness ==
    /\ ret.op = "change_count"
    /\ \E i \in 1..Len(cafe.orders) :
          /\ Len(cafe.orders[i].lines) = 3
          /\ cafe.orders[i].lines[1].count = 3
          /\ cafe.orders[i].lines[3].count = 1
          /\ cafe.orders[i].total = 2210

\* what a new process makes of the file that save writes
Reloaded == Cafe(save(CafeSelf).file)

\* the load of the file that save writes runs to its end
LoadsWhole ==
    ~load_orders([CafeSelf EXCEPT !.dishes = Map(save(CafeSelf).file.data.dishes, Dish_from_json),
                                  !.clients = Map(save(CafeSelf).file.data.clients, Client_from_json),
                                  !.orders = <<>>],
                 save(CafeSelf).file.data.orders).raised

\* C30: a save followed by a load gives back the dishes, the clients with
\* their orders, the orders (lines, counts, total, state, pay state, client)
\* and the three counters, and the load does not end in create_test_data.
C30_CafeRoundTrip ==
    /\ LoadsWhole
    /\ CafeFields(Reloaded) = cafe


====
